---- MODULE Spec2Model ----
(***************************************************************************)
(* Model of maskuni: Charset and Mask odometers, the bruteforce mask       *)
(* generator (two nested coroutines) and the range driver (work).          *)
(*                                                                         *)
(* The specifications of this module:                                     *)
(*   SpecMask  - one Mask driven by setPosition / getCurrent / getNext     *)
(*   SpecBrute - one BruteforceGenerator driven by its next-mask calls     *)
(*   SpecWork  - one run of work(): counting, range resolution, emission   *)
(*   SpecJobs  - the runs -j 1/N .. -j N/N over the same mask list         *)
(*   SpecExpand - expandCharset called on a registry of charset definitions *)
(*   SpecFile  - one MaskFileGenerator driven by next-mask and reset calls  *)
(*   SpecWorkFile - one run of work() over a MaskFileGenerator              *)
(*   SpecGenerators - one generator of either class, with reset calls       *)
(*   SpecWorkOverflow - one run of work() over masks near the 64 bit limit  *)
(*   SpecShare - two Masks whose positions share the sets of their Charsets *)
(*   SpecUtf8  - encode_utf8 and decode_utf8 applied one after the other    *)
(*   SpecCommandLine - work() from the built-in charsets to the first masks *)
(*   SpecCharset - one Charset driven by setPosition / getCurrent / getNext *)
(*   SpecOverloads - one generator driven by both next-mask overloads       *)
(*   SpecPush  - one Mask built by push_charset_left / push_charset_right   *)
(*   SpecWorkFair - SpecWork with work() scheduled until it returns         *)
(*   SpecMaskList - one MaskList walked by getFirstWord and getNext         *)
(*   SpecBuffer - the emission loop of work() on a working buffer that is   *)
(*                nearly full                                               *)
(***************************************************************************)
EXTENDS Integers, Sequences, FiniteSets, TLC

VARIABLES
    \* ---- Mask harness (SpecMask)
    mask,        \* the Mask under test
    w,           \* the caller's word buffer passed to getCurrent / getNext
    lastpos,     \* argument of the last setPosition call, -1 before any
    curAt,       \* number of getNext calls made when getCurrent last ran, -1 if none since setPosition
    nadv,        \* number of getNext calls since the last setPosition
    carry,       \* return value of the last getNext call
    \* ---- bruteforce generator (SpecBrute)
    bf,          \* BruteforceGenerator with its FirstStageGen / SecondStageGen chain
    yielded,     \* masks (sequences of constraint indices) returned since construction or reset
    bout,        \* what the last next-mask call wrote to its output arguments
    bret,        \* return value of the last next-mask call
    \* ---- range driver (SpecWork, SpecJobs)
    wk,          \* locals of work() and the state of its mask generator
    jb,          \* SpecJobs: the runs made so far and what they wrote
    \* ---- charset expansion (SpecExpand)
    ex,          \* the registry and the locals of the expandCharset call in progress
    \* ---- mask file generator (SpecFile)
    mf,          \* MaskFileGenerator, the caller's mask and the masks returned so far
    \* ---- Charset objects and their shared sets (SpecShare)
    heap,        \* the malloc'ed sets, the Charset objects and the Masks that hold them
    \* ---- UTF-8 conversions (SpecUtf8)
    utf,         \* the input and the results of the conversion calls
    \* ---- built-in and command line charsets (SpecCommandLine)
    cmd           \* the arguments of work() and its charsets

hvars == <<heap, utf, cmd>>
mvars == <<mask, w, lastpos, curAt, nadv, carry, hvars>>
bvars == <<bf, yielded, bout, bret>>
xvars == <<ex, mf>>
wvars == <<wk, jb, xvars>>
vars == <<mask, w, lastpos, curAt, nadv, carry, bf, yielded, bout, bret, wk, jb, ex, mf, heap, utf, cmd>>

----------------------------------------------------------------------------
(* Bounds *)

\* uint64_t is modelled with U64Bits bits: every uint64_t operation is taken modulo U64
U64Bits == 6
U64 == 2 ^ U64Bits
\* largest width of a Mask built in SpecMask
MaxWidth == 3
\* largest number of push_charset_left / push_charset_right calls in SpecPush
MaxPushes == 4
\* SpecMaskList: largest number of getNext calls after a getFirstWord
MaxNexts == 8
\* SpecBuffer: the free symbols of the working buffer when the loop is taken
\* up (0..MaxFree), and the number of masks still to write
MaxFree == 4
MaxLeft == 2
\* bruteforce files: largest word width, number of constraint lines, MIN and MAX read
MaxW == 4
MaxK == 2
MaxMin == 2
MaxMaxIn == 5
\* range driver: number of masks the generator holds, largest --begin / --end
\* given besides 2^64 - 1, largest job total N
MaxMasks == 3
MaxIndex == 8
MaxJobs == 5
\* charset expansion: definitions pushed under the name 1, expandCharset calls in a row
MaxDefs == 3
MaxCalls == 2
\* mask files: number of lines
MaxLines == 3
\* Charset objects in memory: objects alive at once, largest setPosition argument
MaxObjects == 5
MaxPosition == 3
\* UTF-8 conversions: length of the codepoint sequences and of the byte strings
MaxCodepoints == 2
MaxBytes == 4

----------------------------------------------------------------------------
(* Helpers *)

Min(a, b) == IF a <= b THEN a ELSE b
Max(a, b) == IF a >= b THEN a ELSE b

\* value left in an element of a buffer that no call has written yet
Poison == "#"

----------------------------------------------------------------------------
(* Charset: a shared set of characters and a per-instance cursor m_p.      *)
(* m_p is kept as the offset m_p - m_set.get().                            *)

\* Charset::Charset(const T *set, uint64_t set_len); aborts when set_len = 0
Charset(set) == [m_set |-> set, m_p |-> 0]

Charset_getLen(c) == Len(c.m_set)

Charset_setPosition(c, o) ==
    LET set_len == Len(c.m_set)
        o2 == IF o >= set_len THEN o % set_len ELSE o
    IN  [c EXCEPT !.m_p = o2]

Charset_getCurrent(c) == c.m_set[c.m_p + 1]

\* mutant: the result tells that the cursor was on the first symbol
Charset_getNext_FromFirst(c) ==
    LET p1 == c.m_p + 1
        p2 == IF p1 = Len(c.m_set) THEN 0 ELSE p1
    IN  [c |-> [c EXCEPT !.m_p = p2], out |-> c.m_set[p2 + 1], ret |-> (c.m_p = 0)]

\* returns the moved charset, the character written to *out and the bool result
Charset_getNext(c) ==
    LET p1 == c.m_p + 1
        p2 == IF p1 = Len(c.m_set) THEN 0 ELSE p1
    IN  [c |-> [c EXCEPT !.m_p = p2], out |-> c.m_set[p2 + 1], ret |-> (p2 = 0)]

----------------------------------------------------------------------------
(* Mask: list of charsets from left to right, with its length.             *)

EmptyMask == [m_charsets |-> <<>>, m_n_charsets |-> 0, m_len |-> 0]

\* mutant: the charsets of the mask are kept
Mask_clear_Keep(m) == m

Mask_clear(m) == EmptyMask

\* mutant: the product is never found too large
umul64_overflow_Never(a, b) == FALSE

\* umul64_overflow(a, b, &res): TRUE when a * b does not fit
umul64_overflow(a, b) == a * b >= U64

\* uadd64_overflow(a, b, &res): TRUE when a + b does not fit
uadd64_overflow(a, b) == a + b >= U64

\* push_charset_right aborts exactly when this holds
Mask_push_overflows(m, c) ==
    m.m_n_charsets # 0 /\ umul64_overflow(m.m_len, Charset_getLen(c))

Mask_push_charset_right(m, c) ==
    [m_charsets   |-> Append(m.m_charsets, c),
     m_n_charsets |-> m.m_n_charsets + 1,
     m_len        |-> IF m.m_n_charsets = 0 THEN Charset_getLen(c)
                      ELSE (m.m_len * Charset_getLen(c)) % U64]

Mask_push_charset_left(m, c) ==
    [m_charsets   |-> <<c>> \o m.m_charsets,
     m_n_charsets |-> m.m_n_charsets + 1,
     m_len        |-> IF m.m_n_charsets = 0 THEN Charset_getLen(c)
                      ELSE (m.m_len * Charset_getLen(c)) % U64]

Mask_getLen(m) == m.m_len
Mask_getWidth(m) == Len(m.m_charsets)

\* mutant: the loop runs left to right, so the leftmost charset varies fastest
RECURSIVE setPositionLoop_LeftToRight(_, _, _)
setPositionLoop_LeftToRight(cs, i, o) ==
    IF i = 0 THEN cs
    ELSE LET k == Len(cs) - i + 1
             s == Charset_getLen(cs[k])
             q == o \div s
             r == o - q * s
         IN  setPositionLoop_LeftToRight([cs EXCEPT ![k] = Charset_setPosition(cs[k], r)], i - 1, q)

\* the right-to-left loop of Mask::setPosition; i is the charset being set
RECURSIVE setPositionLoop(_, _, _)
setPositionLoop(cs, i, o) ==
    IF i = 0 THEN cs
    ELSE LET s == Charset_getLen(cs[i])
             q == o \div s
             r == o - q * s
         IN  setPositionLoop([cs EXCEPT ![i] = Charset_setPosition(cs[i], r)], i - 1, q)

Mask_setPosition(m, o) ==
    IF m.m_len = 0 THEN m
    ELSE LET o2 == IF o >= m.m_len THEN o % m.m_len ELSE o
         IN  [m EXCEPT !.m_charsets = setPositionLoop(m.m_charsets, Len(m.m_charsets), o2)]

\* writes w[0 .. m_n_charsets - 1]; the rest of the buffer is left alone
Mask_getCurrent(m, buf) ==
    [i \in 1..Len(buf) |->
        IF i <= m.m_n_charsets THEN Charset_getCurrent(m.m_charsets[i]) ELSE buf[i]]

\* mutant: the loop does not stop when a charset reports no carry
RECURSIVE getNextLoop_IgnoreCarry(_, _, _, _)
getNextLoop_IgnoreCarry(cs, buf, i, cy) ==
    IF i = 0 THEN [cs |-> cs, buf |-> buf, ret |-> cy]
    ELSE LET n == Charset_getNext(cs[i])
         IN  getNextLoop_IgnoreCarry([cs EXCEPT ![i] = n.c], [buf EXCEPT ![i] = n.out], i - 1, n.ret)

\* the loop of Mask::getNext: for (i = m_n_charsets; carry && i != 0; i--)
RECURSIVE getNextLoop(_, _, _, _)
getNextLoop(cs, buf, i, cy) ==
    IF ~cy \/ i = 0 THEN [cs |-> cs, buf |-> buf, ret |-> cy]
    ELSE LET n == Charset_getNext(cs[i])
         IN  getNextLoop([cs EXCEPT ![i] = n.c], [buf EXCEPT ![i] = n.out], i - 1, n.ret)

\* mutant: the whole word is rewritten after the increment
Mask_getNext_RewriteAll(m, buf) ==
    LET r == getNextLoop(m.m_charsets, buf, m.m_n_charsets, TRUE)
        m2 == [m EXCEPT !.m_charsets = r.cs]
    IN  [m |-> m2, buf |-> Mask_getCurrent(m2, buf), ret |-> r.ret]

\* mutant: the result is the carry of the rightmost charset
Mask_getNext_CarryOfRightmost(m, buf) ==
    LET r == getNextLoop(m.m_charsets, buf, m.m_n_charsets, TRUE)
    IN  [m |-> [m EXCEPT !.m_charsets = r.cs], buf |-> r.buf,
         ret |-> Charset_getNext(m.m_charsets[m.m_n_charsets]).ret]

Mask_getNext(m, buf) ==
    LET r == getNextLoop(m.m_charsets, buf, m.m_n_charsets, TRUE)
    IN  [m |-> [m EXCEPT !.m_charsets = r.cs], buf |-> r.buf, ret |-> r.ret]

----------------------------------------------------------------------------
(* SpecMask: a Mask built by push_charset_right, then iterated.            *)

\* the character sets a position can be built from
CharsetPool == { <<"a">>, <<"0", "1">>, <<"x", "y", "z">> }

RECURSIVE BuildMask(_)
BuildMask(sets) ==
    IF sets = <<>> THEN EmptyMask
    ELSE Mask_push_charset_right(BuildMask(SubSeq(sets, 1, Len(sets) - 1)),
                                 Charset(sets[Len(sets)]))

RECURSIVE BuildOverflows(_)
BuildOverflows(sets) ==
    IF sets = <<>> THEN FALSE
    ELSE \/ BuildOverflows(SubSeq(sets, 1, Len(sets) - 1))
         \/ Mask_push_overflows(BuildMask(SubSeq(sets, 1, Len(sets) - 1)),
                                Charset(sets[Len(sets)]))

SeqsUpTo(S, n) == UNION { [1..k -> S] : k \in 0..n }

IdleBrute ==
    /\ bf = [idle |-> TRUE]
    /\ yielded = <<>>
    /\ bout = [kind |-> "none"]
    /\ bret = FALSE

IdleShare == heap = [pc |-> "idle"]

IdleUtf8 == utf = [pc |-> "idle"]

IdleCommandLine == cmd = [pc |-> "idle"]

IdleMask ==
    /\ mask = EmptyMask
    /\ w = <<>>
    /\ lastpos = -1
    /\ curAt = -1
    /\ nadv = 0
    /\ carry = FALSE
    /\ IdleShare
    /\ IdleUtf8
    /\ IdleCommandLine

IdleExpand == ex = [pc |-> "idle"]

IdleFile == mf = [pc |-> "idle"]

IdleWork ==
    /\ wk = [pc |-> "idle"]
    /\ jb = [N |-> 0]
    /\ IdleExpand
    /\ IdleFile

InitMask ==
    /\ \E sets \in SeqsUpTo(CharsetPool, MaxWidth) :
          /\ ~BuildOverflows(sets)
          /\ mask = BuildMask(sets)
          /\ w = [i \in 1..Len(sets) |-> Poison]
    /\ lastpos = -1
    /\ curAt = -1
    /\ nadv = 0
    /\ carry = FALSE
    /\ IdleShare
    /\ IdleUtf8
    /\ IdleCommandLine
    /\ IdleBrute
    /\ IdleWork

\* mask.setPosition(o), o up to getLen() so that the modulo branch is taken
MaskSetPosition ==
    /\ \E o \in 0..Mask_getLen(mask) :
          /\ mask' = Mask_setPosition(mask, o)
          /\ lastpos' = o
    /\ curAt' = -1
    /\ nadv' = 0
    /\ UNCHANGED <<w, carry, hvars, bvars, wvars>>

\* mask.getCurrent(w)
MaskGetCurrent ==
    /\ w' = Mask_getCurrent(mask, w)
    /\ curAt' = nadv
    /\ UNCHANGED <<mask, lastpos, nadv, carry, hvars, bvars, wvars>>

\* mask.getNext(w); the number of calls after one setPosition is capped at getLen()
MaskGetNext ==
    /\ nadv < Mask_getLen(mask)
    /\ LET r == Mask_getNext(mask, w)
       IN  /\ mask' = r.m
           /\ w' = r.buf
           /\ carry' = r.ret
    /\ nadv' = nadv + 1
    /\ UNCHANGED <<lastpos, curAt, hvars, bvars, wvars>>

NextMask == MaskSetPosition \/ MaskGetCurrent \/ MaskGetNext

SpecMask == InitMask /\ [][NextMask]_vars

----------------------------------------------------------------------------
(* Charset objects in memory: the set of a Charset is a malloc'ed block    *)
(* held by a shared_ptr, the cursor m_p is a member of each object.        *)
(* heap.sets are the blocks, heap.objs the Charset objects (m_set is the   *)
(* index of a block, m_p the offset of the cursor in it), heap.constraints *)
(* and heap.masks[i] hold the objects of the bruteforce constraints and of *)
(* two live Masks, heap.last is the last call made.                        *)

\* Charset(const T *set, uint64_t set_len): a new block, the cursor at its start
Charset_new(h, set) ==
    [h |-> [h EXCEPT !.sets = Append(@, set),
                     !.objs = Append(@, [m_set |-> Len(h.sets) + 1, m_p |-> 0])],
     obj |-> Len(h.objs) + 1]

\* mutant: the new element is the object that is passed, not a copy of it
Charset_copy_Alias(h, o) == [h |-> h, obj |-> o]

\* Charset(const Charset &o): a new object with the same block and a cursor of its own
Charset_copy(h, o) ==
    [h |-> [h EXCEPT !.objs = Append(@, [m_set |-> h.objs[o].m_set, m_p |-> h.objs[o].m_p])],
     obj |-> Len(h.objs) + 1]

\* the Charset object o as a value: its set and its cursor
Charset_at(h, o) == [m_set |-> h.sets[h.objs[o].m_set], m_p |-> h.objs[o].m_p]

\* the sets pushed by name and the sets of the bruteforce constraints
NamedSets == { <<"0", "1">> }
ConstraintSets == << <<"0", "1">>, <<"x", "y", "z">> >>

InitShare ==
    /\ LET h0 == [pc |-> "run", sets |-> <<>>, objs |-> <<>>, constraints |-> <<>>,
                  masks |-> << <<>>, <<>> >>, last |-> [op |-> "none", i |-> 0, k |-> 0]]
           c1 == Charset_new(h0, ConstraintSets[1])
           c2 == Charset_new(c1.h, ConstraintSets[2])
       IN  heap = [c2.h EXCEPT !.constraints = <<c1.obj, c2.obj>>]
    /\ mask = EmptyMask
    /\ w = <<>>
    /\ lastpos = -1
    /\ curAt = -1
    /\ nadv = 0
    /\ carry = FALSE
    /\ IdleUtf8
    /\ IdleCommandLine
    /\ IdleBrute
    /\ IdleWork

\* masks[i].push_charset_right(set, set_len): m_charsets.emplace_back(set, set_len)
SharePushSet ==
    /\ heap.pc = "run"
    /\ Len(heap.objs) < MaxObjects
    /\ \E i \in 1..2, set \in NamedSets :
          LET r == Charset_new(heap, set)
          IN  heap' = [r.h EXCEPT !.masks[i] = Append(@, r.obj),
                                  !.last = [op |-> "push", i |-> i, k |-> Len(heap.masks[i]) + 1]]
    /\ UNCHANGED <<mask, w, lastpos, curAt, nadv, carry, utf, cmd, bvars, wvars>>

\* masks[i].push_charset_right(c->m_charset): m_charsets.emplace_back(charset)
SharePushCharset ==
    /\ heap.pc = "run"
    /\ Len(heap.objs) < MaxObjects
    /\ \E i \in 1..2, c \in 1..Len(heap.constraints) :
          LET r == Charset_copy(heap, heap.constraints[c])
          IN  heap' = [r.h EXCEPT !.masks[i] = Append(@, r.obj),
                                  !.last = [op |-> "push", i |-> i, k |-> Len(heap.masks[i]) + 1]]
    /\ UNCHANGED <<mask, w, lastpos, curAt, nadv, carry, utf, cmd, bvars, wvars>>

\* masks[i].m_charsets[k].setPosition(o)
ShareSetPosition ==
    /\ heap.pc = "run"
    /\ \E i \in 1..2 : \E k \in 1..Len(heap.masks[i]), o \in 0..MaxPosition :
          LET obj == heap.masks[i][k]
          IN  heap' = [heap EXCEPT !.objs[obj].m_p = Charset_setPosition(Charset_at(heap, obj), o).m_p,
                                   !.last = [op |-> "setPosition", i |-> i, k |-> k]]
    /\ UNCHANGED <<mask, w, lastpos, curAt, nadv, carry, utf, cmd, bvars, wvars>>

\* masks[i].m_charsets[k].getNext(&out)
ShareGetNext ==
    /\ heap.pc = "run"
    /\ \E i \in 1..2 : \E k \in 1..Len(heap.masks[i]) :
          LET obj == heap.masks[i][k]
          IN  heap' = [heap EXCEPT !.objs[obj].m_p = Charset_getNext(Charset_at(heap, obj)).c.m_p,
                                   !.last = [op |-> "getNext", i |-> i, k |-> k]]
    /\ UNCHANGED <<mask, w, lastpos, curAt, nadv, carry, utf, cmd, bvars, wvars>>

NextShare == SharePushSet \/ SharePushCharset \/ ShareSetPosition \/ ShareGetNext

SpecShare == InitShare /\ [][NextShare]_vars

----------------------------------------------------------------------------
(* SpecCharset: one Charset and the calls made on it.  heap.c is the       *)
(* Charset, heap.op the last call, heap.o the argument of the last         *)
(* setPosition when no getNext was made since (-1 otherwise), heap.prev    *)
(* the cursor before the last call, heap.out the caller's *out and         *)
(* heap.ret the result of the last getNext.                                *)

InitCharset ==
    /\ \E set \in CharsetPool :
          heap = [pc |-> "charset", c |-> Charset(set), op |-> "new", o |-> -1,
                  prev |-> 0, out |-> Poison, ret |-> FALSE]
    /\ mask = EmptyMask
    /\ w = <<>>
    /\ lastpos = -1
    /\ curAt = -1
    /\ nadv = 0
    /\ carry = FALSE
    /\ IdleUtf8
    /\ IdleCommandLine
    /\ IdleBrute
    /\ IdleWork

\* c.setPosition(o) for any uint64_t o
CharsetSetPosition ==
    /\ heap.pc = "charset"
    /\ \E o \in 0..(U64 - 1) :
          heap' = [heap EXCEPT !.c = Charset_setPosition(heap.c, o), !.op = "setPosition",
                               !.o = o, !.prev = heap.c.m_p]
    /\ UNCHANGED <<mask, w, lastpos, curAt, nadv, carry, utf, cmd, bvars, wvars>>

\* c.getCurrent(&out)
CharsetGetCurrent ==
    /\ heap.pc = "charset"
    /\ heap' = [heap EXCEPT !.op = "getCurrent", !.out = Charset_getCurrent(heap.c),
                            !.prev = heap.c.m_p]
    /\ UNCHANGED <<mask, w, lastpos, curAt, nadv, carry, utf, cmd, bvars, wvars>>

\* c.getNext(&out)
CharsetGetNext ==
    /\ heap.pc = "charset"
    /\ heap' = [heap EXCEPT !.c = Charset_getNext(heap.c).c, !.op = "getNext", !.o = -1,
                            !.out = Charset_getNext(heap.c).out,
                            !.ret = Charset_getNext(heap.c).ret,
                            !.prev = heap.c.m_p]
    /\ UNCHANGED <<mask, w, lastpos, curAt, nadv, carry, utf, cmd, bvars, wvars>>

NextCharset == CharsetSetPosition \/ CharsetGetCurrent \/ CharsetGetNext

SpecCharset == InitCharset /\ [][NextCharset]_vars

----------------------------------------------------------------------------
(* SpecPush: one Mask of Mask.h, built by push_charset_left and            *)
(* push_charset_right calls, over the Charset that owns its malloc'ed set  *)
(* (m_set, m_len, m_set_end, m_p).  heap.v is the std::vector m_charsets   *)
(* and heap.cap its capacity; m_set is the allocated array, of m_len       *)
(* symbols.  heap.later is the same Mask over the Charset of the later     *)
(* revision, which shares its set by std::shared_ptr.  heap.pushes is the  *)
(* log of the calls made.                                                  *)

\* Charset(const T *set, uint64_t set_len)
OwningCharset(set) == [m_set |-> set, m_len |-> Len(set), m_p |-> 0]

\* Charset(const Charset &o): m_len(o.m_len), then m_len symbols are copied
OwningCharset_copy(o) == [m_set |-> o.m_set, m_len |-> o.m_len, m_p |-> o.m_p]

\* what a read past the end of a malloc'ed array may give
Garbage == {"NUL", "~"}

\* Charset &operator=(const Charset &o): m_len is not assigned; the new array
\* has this->m_len symbols and this->m_len symbols are copied from o.m_set,
\* read past its end when o is shorter
OwningCharset_assign(c, o, junk) ==
    [m_set |-> [i \in 1..c.m_len |-> IF i <= o.m_len THEN o.m_set[i] ELSE junk],
     m_len |-> c.m_len,
     m_p   |-> o.m_p]

\* the capacity after a reallocation (libstdc++ doubles it)
GrownCapacity(cap) == IF cap = 0 THEN 1 ELSE 2 * cap

\* m_charsets.emplace_back(set, set_len): the elements are copy-constructed
\* into the new storage or stay where they are
vector_emplace_back(v, cap, set) ==
    [v   |-> Append([i \in 1..Len(v) |-> OwningCharset_copy(v[i])], OwningCharset(set)),
     cap |-> IF Len(v) = cap THEN GrownCapacity(cap) ELSE cap]

\* m_charsets.emplace(m_charsets.begin(), set, set_len): with no room left the
\* elements are copy-constructed into the new storage; with room left the
\* last element is copy-constructed one place further, the others are
\* assigned one place to the right (std::move_backward; Charset has no move
\* assignment) and the new Charset is assigned to the first place
vector_emplace_begin(v, cap, set, junk) ==
    IF Len(v) = cap
    THEN [v   |-> <<OwningCharset(set)>> \o [i \in 1..Len(v) |-> OwningCharset_copy(v[i])],
          cap |-> GrownCapacity(cap)]
    ELSE IF v = <<>>
    THEN [v |-> <<OwningCharset(set)>>, cap |-> cap]
    ELSE [v   |-> [i \in 1..(Len(v) + 1) |->
                      IF i = Len(v) + 1 THEN OwningCharset_copy(v[Len(v)])
                      ELSE IF i = 1 THEN OwningCharset_assign(v[1], OwningCharset(set), junk)
                      ELSE OwningCharset_assign(v[i], v[i - 1], junk)],
          cap |-> cap]

\* the same call on the Mask of the later revision; it stops at its abort
LaterPush(later, left, set) ==
    IF later.aborted \/ Mask_push_overflows(later.m, Charset(set))
    THEN [later EXCEPT !.aborted = TRUE]
    ELSE [later EXCEPT !.m = IF left THEN Mask_push_charset_left(later.m, Charset(set))
                                    ELSE Mask_push_charset_right(later.m, Charset(set))]

\* Mask()
InitPush ==
    /\ heap = [pc |-> "vector", v |-> <<>>, cap |-> 0, m_n_charsets |-> 0, m_len |-> 0,
               later |-> [m |-> EmptyMask, aborted |-> FALSE], pushes |-> <<>>]
    /\ mask = EmptyMask
    /\ w = <<>>
    /\ lastpos = -1
    /\ curAt = -1
    /\ nadv = 0
    /\ carry = FALSE
    /\ IdleUtf8
    /\ IdleCommandLine
    /\ IdleBrute
    /\ IdleWork

\* the end of both push methods, on the Charset c that was put in the vector:
\* m_len is set or multiplied by c.getLen(), abort() on overflow
Pushed(r, c, left, set) ==
    IF heap.m_n_charsets # 0 /\ umul64_overflow(heap.m_len, c.m_len)
    THEN heap' = [heap EXCEPT !.pc = "aborted", !.v = r.v, !.cap = r.cap]
    ELSE heap' = [heap EXCEPT !.v = r.v, !.cap = r.cap,
                              !.m_len = IF heap.m_n_charsets = 0 THEN c.m_len
                                        ELSE heap.m_len * c.m_len,
                              !.m_n_charsets = @ + 1,
                              !.later = LaterPush(@, left, set),
                              !.pushes = Append(@, [left |-> left, set |-> set])]

\* void push_charset_right(const T *set, uint64_t set_len)
PushCharsetRight ==
    /\ heap.pc = "vector"
    /\ Len(heap.pushes) < MaxPushes
    /\ \E set \in CharsetPool :
          LET r == vector_emplace_back(heap.v, heap.cap, set)
          IN  Pushed(r, r.v[Len(r.v)], FALSE, set)
    /\ UNCHANGED <<mask, w, lastpos, curAt, nadv, carry, utf, cmd, bvars, wvars>>

\* void push_charset_left(const T *set, uint64_t set_len)
PushCharsetLeft ==
    /\ heap.pc = "vector"
    /\ Len(heap.pushes) < MaxPushes
    /\ \E set \in CharsetPool, junk \in Garbage :
          LET r == vector_emplace_begin(heap.v, heap.cap, set, junk)
          IN  Pushed(r, r.v[1], TRUE, set)
    /\ UNCHANGED <<mask, w, lastpos, curAt, nadv, carry, utf, cmd, bvars, wvars>>

NextPush == PushCharsetLeft \/ PushCharsetRight

SpecPush == InitPush /\ [][NextPush]_vars

----------------------------------------------------------------------------
(* UTF-8: ReadUtf8Cp::read, CpToUtf8::write and the stream loops           *)
(* unicode_decode and unicode_encode.  Bytes are 0..255, codepoints are    *)
(* uint32_t values.                                                        *)

RECURSIVE BitAnd(_, _)
BitAnd(a, b) ==
    IF a = 0 \/ b = 0 THEN 0
    ELSE (a % 2) * (b % 2) + 2 * BitAnd(a \div 2, b \div 2)

RECURSIVE BitOr(_, _)
BitOr(a, b) ==
    IF a = 0 THEN b
    ELSE IF b = 0 THEN a
    ELSE Max(a % 2, b % 2) + 2 * BitOr(a \div 2, b \div 2)

ShiftLeft(a, n) == a * 2 ^ n
ShiftRight(a, n) == a \div 2 ^ n

\* conversion of an int to the unsigned char stored through the output iterator
ToByte(v) == v % 256

\* mutant: the decoder accepts overlong encodings
Overlong_Never(cp, least) == FALSE

\* "overlong encoding": the codepoint would fit in a shorter sequence
Overlong(cp, least) == cp < least

\* (byte & 0b11000000) != 0b10000000
NotContinuation(byte) == BitAnd(byte, \b11000000) # \b10000000

\* ReadUtf8Cp::read(input, input_len, cp_out): ret is the number of bytes read,
\* 0 when the input is empty or ends within a sequence, -1 on an invalid sequence
ReadUtf8Cp_read(input) ==
    LET input_len == Len(input)
        byte_0 == input[1]
        byte_1 == input[2]
        byte_2 == input[3]
        byte_3 == input[4]
        cp2 == BitOr(ShiftLeft(BitAnd(byte_0, \b00011111), 6), BitAnd(byte_1, \b00111111))
        cp3 == BitOr(BitOr(ShiftLeft(BitAnd(byte_0, \b00001111), 12),
                           ShiftLeft(BitAnd(byte_1, \b00111111), 6)),
                     BitAnd(byte_2, \b00111111))
        cp4 == BitOr(BitOr(BitOr(ShiftLeft(BitAnd(byte_0, \b00000111), 18),
                                 ShiftLeft(BitAnd(byte_1, \b00111111), 12)),
                           ShiftLeft(BitAnd(byte_2, \b00111111), 6)),
                     BitAnd(byte_3, \b00111111))
        none == [ret |-> 0, cp |-> 0]
        bad  == [ret |-> -1, cp |-> 0]
    IN  IF input_len = 0 THEN none
        ELSE IF BitAnd(byte_0, \b10000000) = 0 THEN [ret |-> 1, cp |-> byte_0]
        ELSE IF BitAnd(byte_0, \b11100000) = \b11000000
        THEN IF input_len < 1 + 1 THEN none
             ELSE IF NotContinuation(byte_1) THEN bad
             ELSE IF Overlong(cp2, \h80) THEN bad
             ELSE [ret |-> 2, cp |-> cp2]
        ELSE IF BitAnd(byte_0, \b11110000) = \b11100000
        THEN IF input_len < 1 + 2 THEN none
             ELSE IF NotContinuation(byte_1) THEN bad
             ELSE IF NotContinuation(byte_2) THEN bad
             ELSE IF Overlong(cp3, \h800) THEN bad
             ELSE IF cp3 >= \hD800 /\ cp3 <= \hDFFF THEN bad
             ELSE [ret |-> 3, cp |-> cp3]
        ELSE IF BitAnd(byte_0, \b11111000) = \b11110000
        THEN IF input_len < 1 + 3 THEN none
             ELSE IF NotContinuation(byte_1) THEN bad
             ELSE IF NotContinuation(byte_2) THEN bad
             ELSE IF NotContinuation(byte_3) THEN bad
             ELSE IF Overlong(cp4, \h10000) THEN bad
             ELSE IF cp4 > \h10FFFF THEN bad
             ELSE [ret |-> 4, cp |-> cp4]
        ELSE bad

\* CpToUtf8::write(cp, output): the bytes written
CpToUtf8_write(cp) ==
    IF cp <= \h7F THEN <<ToByte(BitAnd(cp, \b1111111))>>
    ELSE IF cp <= \h7FF
    THEN <<ToByte(BitOr(\b11000000, ShiftRight(cp, 6))),
           ToByte(BitOr(\b10000000, BitAnd(cp, \b111111)))>>
    ELSE IF cp <= \hFFFF
    THEN <<ToByte(BitOr(\b11100000, ShiftRight(cp, 12))),
           ToByte(BitOr(\b10000000, BitAnd(ShiftRight(cp, 6), \b111111))),
           ToByte(BitOr(\b10000000, BitAnd(cp, \b111111)))>>
    ELSE <<ToByte(BitOr(\b11110000, ShiftRight(cp, 18))),
           ToByte(BitOr(\b10000000, BitAnd(ShiftRight(cp, 12), \b111111))),
           ToByte(BitOr(\b10000000, BitAnd(ShiftRight(cp, 6), \b111111))),
           ToByte(BitOr(\b10000000, BitAnd(cp, \b111111)))>>

\* unicode_decode<ReadUtf8Cp>: the loop from the state r over the rest of the input
RECURSIVE unicode_decode_loop(_, _)
unicode_decode_loop(input, r) ==
    IF input = <<>> THEN r
    ELSE LET one == ReadUtf8Cp_read(input)
         IN  IF one.ret < 0 THEN [r EXCEPT !.ret = "E_INVALID"]
             ELSE IF one.ret = 0 THEN [r EXCEPT !.ret = "E_TRUNCATED"]
             ELSE unicode_decode_loop(SubSeq(input, one.ret + 1, Len(input)),
                                      [r EXCEPT !.output = Append(@, one.cp),
                                                !.consumed = @ + one.ret,
                                                !.written = @ + 1])

unicode_decode(input) ==
    unicode_decode_loop(input, [ret |-> "OK", output |-> <<>>, consumed |-> 0, written |-> 0])

\* unicode_encode<CpToUtf8>
RECURSIVE unicode_encode_loop(_, _)
unicode_encode_loop(input, r) ==
    IF input = <<>> THEN r
    ELSE LET cp == Head(input)
         IN  IF (cp >= \hD800 /\ cp <= \hDFFF) \/ cp > \h10FFFF
             THEN [r EXCEPT !.ret = "E_INVALID"]
             ELSE unicode_encode_loop(Tail(input),
                                      [r EXCEPT !.output = @ \o CpToUtf8_write(cp),
                                                !.consumed = @ + 1,
                                                !.written = @ + Len(CpToUtf8_write(cp))])

unicode_encode(input) ==
    unicode_encode_loop(input, [ret |-> "OK", output |-> <<>>, consumed |-> 0, written |-> 0])

\* codepoints at the ends of the ranges of each encoded length, an unpaired
\* surrogate and the first value past the last codepoint
CodepointPool ==
    { \h0, \h41, \h7F, \h80, \h7FF, \h800, \hD7FF, \hD800, \hE000, \hFFFF,
      \h10000, \h10FFFF, \h110000 }

\* lead and continuation bytes at the ends of their ranges
BytePool ==
    { \h41, \h80, \h8F, \h90, \h9F, \hA0, \hBF, \hC1, \hC2, \hE0, \hED, \hF0, \hF4 }

\* utf.from tells what the input is ("cps" or "bytes"), utf.cps and utf.bytes
\* hold the input and the result of the first conversion, utf.back the result
\* of the second one, utf.calls the results of the calls made
InitUtf8 ==
    /\ \/ \E cps \in SeqsUpTo(CodepointPool, MaxCodepoints) :
             utf = [pc |-> "run", from |-> "cps", cps |-> cps, bytes |-> <<>>,
                    back |-> <<>>, calls |-> <<>>]
       \/ \E bytes \in SeqsUpTo(BytePool, MaxBytes) :
             utf = [pc |-> "run", from |-> "bytes", cps |-> <<>>, bytes |-> bytes,
                    back |-> <<>>, calls |-> <<>>]
    /\ mask = EmptyMask
    /\ w = <<>>
    /\ lastpos = -1
    /\ curAt = -1
    /\ nadv = 0
    /\ carry = FALSE
    /\ IdleShare
    /\ IdleCommandLine
    /\ IdleBrute
    /\ IdleWork

LastCallOK == utf.calls # <<>> /\ utf.calls[Len(utf.calls)].ret = "OK"

\* encode_utf8 on the codepoints given, or on those the decoder returned
Utf8Encode ==
    /\ utf.pc = "run"
    /\ \/ utf.from = "cps" /\ utf.calls = <<>>
       \/ utf.from = "bytes" /\ Len(utf.calls) = 1 /\ LastCallOK
    /\ LET r == unicode_encode(utf.cps)
       IN  utf' = [utf EXCEPT !.calls = Append(@, [ret |-> r.ret, consumed |-> r.consumed,
                                                   written |-> r.written]),
                              !.bytes = IF utf.from = "cps" THEN r.output ELSE @,
                              !.back = IF utf.from = "bytes" THEN r.output ELSE @]
    /\ UNCHANGED <<mask, w, lastpos, curAt, nadv, carry, heap, cmd, bvars, wvars>>

\* decode_utf8 on the bytes given, or on those the encoder returned
Utf8Decode ==
    /\ utf.pc = "run"
    /\ \/ utf.from = "bytes" /\ utf.calls = <<>>
       \/ utf.from = "cps" /\ Len(utf.calls) = 1 /\ LastCallOK
    /\ LET r == unicode_decode(utf.bytes)
       IN  utf' = [utf EXCEPT !.calls = Append(@, [ret |-> r.ret, consumed |-> r.consumed,
                                                   written |-> r.written]),
                              !.cps = IF utf.from = "bytes" THEN r.output ELSE @,
                              !.back = IF utf.from = "cps" THEN r.output ELSE @]
    /\ UNCHANGED <<mask, w, lastpos, curAt, nadv, carry, heap, cmd, bvars, wvars>>

NextUtf8 == Utf8Encode \/ Utf8Decode

SpecUtf8 == InitUtf8 /\ [][NextUtf8]_vars

----------------------------------------------------------------------------
(* Charset registry and expandCharset                                      *)

\* template parameter escapeChar = T('?')
escapeChar == "?"

\* the names definitions are pushed under
CharsetNames == {"1", "2"}

\* charsets.count(key) on CharsetMap<T> = std::multimap<T, DefaultCharset<T>>;
\* a registry maps each name to its definitions in insertion order
CharsetMap_count(charsets, key) ==
    IF key \in DOMAIN charsets THEN Len(charsets[key]) ELSE 0

\* std::list<T> lcharset: nodes carry an identity so that iterators stay valid
\* when other nodes are inserted or erased; END is lcharset.end()
END == 0

list_pos(l, it) == CHOOSE i \in 1..Len(l) : l[i].id = it

list_at(l, p) == IF p <= Len(l) THEN l[p].id ELSE END

list_erase(l, p) == SubSeq(l, 1, p - 1) \o SubSeq(l, p + 1, Len(l))

list_insert(l, p, cset, nextid) ==
    SubSeq(l, 1, p - 1)
      \o [i \in 1..Len(cset) |-> [id |-> nextid + i - 1, c |-> cset[i]]]
      \o SubSeq(l, p, Len(l))

\* mutant: only the name expanded last is looked at
CountKey_LastOnly(keys_history, key) ==
    IF keys_history[Len(keys_history)] = key THEN 1 ELSE 0

\* std::count(keys_history.begin(), keys_history.end(), key)
CountKey(keys_history, key) ==
    Cardinality({i \in 1..Len(keys_history) : keys_history[i] = key})

\* mutant: the reference always takes the last definition pushed
ReplacementDef_Newest(charsets, key, n_replaced) ==
    charsets[key][Len(charsets[key])]

\* it_repl = charsets.upper_bound(key); std::advance(it_repl, -(1 + n_replaced))
ReplacementDef(charsets, key, n_replaced) ==
    charsets[key][Len(charsets[key]) - n_replaced]

\* mutant: ?, stands for a comma as ?? stands for a question mark
EscapedKey_OrComma(key) == key = escapeChar \/ key = ","

\* if (key == escapeChar): "escaped escapeChar, remove one of them"
EscapedKey(key) == key = escapeChar

\* the for loop over one range of lcharset, from the node at index p
RECURSIVE ScanRange(_, _, _, _, _, _)
ScanRange(charsets, st, p, n_chars, bound, keys_history) ==
    IF n_chars = bound THEN st
    ELSE LET c == st.l[p].c
         IN  IF c # escapeChar
             THEN ScanRange(charsets, st, p + 1, n_chars + 1, bound, keys_history)
             ELSE IF n_chars + 1 = bound
             THEN ScanRange(charsets, st, p + 1, n_chars + 1, bound, keys_history)
             ELSE LET key == st.l[p + 1].c
                  IN  IF EscapedKey(key)
                      THEN ScanRange(charsets, [st EXCEPT !.l = list_erase(@, p)],
                                     p + 1, n_chars + 2, bound, keys_history)
                      ELSE LET n_repl_avail == CharsetMap_count(charsets, key)
                               n_replaced == CountKey(keys_history, key)
                           IN  IF n_repl_avail = 0 THEN [st EXCEPT !.failed = TRUE]
                               ELSE IF ~(n_replaced < n_repl_avail) THEN [st EXCEPT !.failed = TRUE]
                               ELSE LET it_repl == ReplacementDef(charsets, key, n_replaced)
                                        size == Len(it_repl.cset)
                                        erased == list_erase(list_erase(st.l, p), p)
                                        inserted == list_insert(erased, p, it_repl.cset, st.nextid)
                                        st2 == [l |-> inserted,
                                                nextid |-> st.nextid + size,
                                                queue |-> IF it_repl.final THEN st.queue
                                                          ELSE Append(st.queue,
                                                                 [first |-> list_at(inserted, p),
                                                                  second |-> size,
                                                                  keys_history |-> Append(keys_history, key)]),
                                                failed |-> FALSE]
                                    IN  ScanRange(charsets, st2, p + size, n_chars + 2, bound, keys_history)

\* mutant: the list is stored as it is
RemoveDuplicates_Keep(s) == s

\* "remove duplicates": every element erases its later copies
RECURSIVE RemoveDuplicates(_)
RemoveDuplicates(s) ==
    IF s = <<>> THEN <<>>
    ELSE <<Head(s)>> \o RemoveDuplicates(SelectSeq(Tail(s), LAMBDA x : x # Head(s)))

\* mutant: a final definition is expanded again
AlreadyFinal_Never(charset) == FALSE

\* if (charset.final) return true
AlreadyFinal(charset) == charset.final

\* mutant: the two return false of the loop are dropped
ReturnsFalse_Never(st) == FALSE

\* "can't recurse anymore, make it fatal" and "no charset found, fatal"
ReturnsFalse(st) == st.failed

\* one iteration of while (!queue.empty()): pop the last range and scan it
ExpandStep(charsets, l, nextid, queue) ==
    LET boundaries == queue[Len(queue)]
        st0 == [l |-> l, nextid |-> nextid,
                queue |-> SubSeq(queue, 1, Len(queue) - 1), failed |-> FALSE]
    IN  IF boundaries.second = 0 THEN st0
        ELSE ScanRange(charsets, st0, list_pos(l, boundaries.first), 0,
                       boundaries.second, boundaries.keys_history)

\* definitions a registry is built from: bodies as pushed (final = FALSE) and
\* built-in or already expanded ones (final = TRUE)
DefinitionPool ==
    { [cset |-> <<"1", "2", "3">>, final |-> FALSE],
      [cset |-> <<"?", "1", "4", "5", "6">>, final |-> FALSE],
      [cset |-> <<"?", "2", "a">>, final |-> FALSE],
      [cset |-> <<"a", "?", "?", "a", "?">>, final |-> FALSE],
      [cset |-> <<"?", "3">>, final |-> FALSE],
      [cset |-> <<"?", "1">>, final |-> TRUE],
      [cset |-> <<"a", "b">>, final |-> TRUE] }

\* the definitions pushed under the name 1 before its last one
EarlierPool ==
    { [cset |-> <<"1", "2", "3">>, final |-> FALSE],
      [cset |-> <<"?", "1", "4", "5", "6">>, final |-> FALSE],
      [cset |-> <<"a", "b">>, final |-> TRUE] }

Registries ==
    { [k \in CharsetNames |-> IF k = "1" THEN d1 ELSE d2] :
        d1 \in {<<>>} \cup { earlier \o <<last>> :
                                earlier \in SeqsUpTo(EarlierPool, MaxDefs - 1),
                                last \in DefinitionPool },
        d2 \in SeqsUpTo(DefinitionPool, 1) }

InitExpand ==
    /\ \E charsets \in Registries :
          ex = [pc |-> "ready", charsets |-> charsets, before |-> charsets,
                charset_name |-> "", l |-> <<>>, nextid |-> 1, queue |-> <<>>,
                ret |-> FALSE, ncalls |-> 0, prev |-> <<>>]
    /\ IdleMask
    /\ IdleBrute
    /\ wk = [pc |-> "idle"]
    /\ jb = [N |-> 0]
    /\ IdleFile

\* expandCharset(charsets, charset_name) up to the while loop; the callers pass
\* a name they have just inserted or read from the registry
ExpandBegin ==
    /\ ex.pc \in {"ready", "done", "failed"}
    /\ ex.ncalls < MaxCalls
    /\ \E charset_name \in CharsetNames :
          /\ CharsetMap_count(ex.charsets, charset_name) # 0
          /\ LET charset == ex.charsets[charset_name][Len(ex.charsets[charset_name])]
                 l == [i \in 1..Len(charset.cset) |-> [id |-> i, c |-> charset.cset[i]]]
                 prev == IF ex.pc = "ready" THEN <<>>
                         ELSE <<[charset_name |-> ex.charset_name, ret |-> ex.ret]>>
             IN  IF AlreadyFinal(charset)
                 THEN ex' = [ex EXCEPT !.pc = "done", !.ret = TRUE, !.charset_name = charset_name,
                                       !.before = ex.charsets, !.ncalls = @ + 1, !.prev = prev,
                                       !.l = <<>>, !.queue = <<>>, !.nextid = 1]
                 ELSE ex' = [ex EXCEPT !.pc = "loop", !.ret = FALSE, !.charset_name = charset_name,
                                       !.before = ex.charsets, !.ncalls = @ + 1, !.prev = prev,
                                       !.l = l, !.nextid = Len(l) + 1,
                                       !.queue = <<[first |-> list_at(l, 1), second |-> Len(l),
                                                    keys_history |-> <<charset_name>>]>>]
    /\ UNCHANGED <<mvars, bvars, wk, jb, mf>>

\* one iteration of while (!queue.empty())
ExpandRange ==
    /\ ex.pc = "loop"
    /\ ex.queue # <<>>
    /\ LET st == ExpandStep(ex.charsets, ex.l, ex.nextid, ex.queue)
       IN  IF ReturnsFalse(st)
           THEN ex' = [ex EXCEPT !.pc = "failed", !.ret = FALSE]
           ELSE ex' = [ex EXCEPT !.l = st.l, !.nextid = st.nextid, !.queue = st.queue]
    /\ UNCHANGED <<mvars, bvars, wk, jb, mf>>

\* the queue is empty: remove duplicates, store the charset, mark it final
ExpandFinish ==
    /\ ex.pc = "loop"
    /\ ex.queue = <<>>
    /\ LET n == Len(ex.charsets[ex.charset_name])
           cset == RemoveDuplicates([i \in 1..Len(ex.l) |-> ex.l[i].c])
       IN  ex' = [ex EXCEPT !.pc = "done", !.ret = TRUE,
                            !.charsets[ex.charset_name][n] = [cset |-> cset, final |-> TRUE]]
    /\ UNCHANGED <<mvars, bvars, wk, jb, mf>>

NextExpand == ExpandBegin \/ ExpandRange \/ ExpandFinish

SpecExpand == InitExpand /\ [][NextExpand]_vars

\* the loop of expandCharset is not interrupted: a call that has started runs on
SpecExpandLive == SpecExpand /\ WF_vars(ExpandRange) /\ WF_vars(ExpandFinish)

----------------------------------------------------------------------------
(* Mask parsing: readMask, readMaskLine_ and MaskFileGenerator             *)

lineEscapeChar == "\\"
separatorChar == ","
commentChar == "#"

\* charsets.insert(std::make_pair(key, def)): a further definition of key
CharsetMap_insert(charsets, key, def) ==
    [k \in DOMAIN charsets \cup {key} |->
        IF k = key THEN Append(IF key \in DOMAIN charsets THEN charsets[key] ELSE <<>>, def)
        ELSE charsets[k]]

\* the whole loop of expandCharset; it is left as soon as a range fails
RECURSIVE expandLoop(_, _)
expandLoop(charsets, st) ==
    IF st.queue = <<>> \/ ReturnsFalse(st) THEN st
    ELSE expandLoop(charsets, ExpandStep(charsets, st.l, st.nextid, st.queue))

\* expandCharset from "std::list<T> lcharset" to the end of the loop, on the
\* last definition of charset_name
expandCharset_list(charsets, charset_name, lcharset) ==
    expandLoop(charsets,
               [l |-> lcharset, nextid |-> Len(lcharset) + 1, failed |-> FALSE,
                queue |-> <<[first |-> list_at(lcharset, 1), second |-> Len(lcharset),
                             keys_history |-> <<charset_name>>]>>])

\* the end of expandCharset: return false, or remove the duplicates, store and
\* mark the definition final
expandCharset_store(charsets, charset_name, st) ==
    IF ReturnsFalse(st) THEN [ret |-> FALSE, charsets |-> charsets]
    ELSE [ret |-> TRUE,
          charsets |-> [charsets EXCEPT ![charset_name][Len(charsets[charset_name])] =
                          [cset |-> RemoveDuplicates([i \in 1..Len(st.l) |-> st.l[i].c]),
                           final |-> TRUE]]]

\* expandCharset(charsets, charset_name) called on a name that has just been inserted
expandCharset(charsets, charset_name) ==
    IF AlreadyFinal(charsets[charset_name][Len(charsets[charset_name])])
    THEN [ret |-> TRUE, charsets |-> charsets]
    ELSE expandCharset_store(charsets, charset_name,
            expandCharset_list(charsets, charset_name,
                [i \in 1..Len(charsets[charset_name][Len(charsets[charset_name])].cset) |->
                    [id |-> i, c |-> charsets[charset_name][Len(charsets[charset_name])].cset[i]]]))

\* mask.push_charset_right(set, set_len) aborts on an empty set (Charset constructor)
\* and when the length of the mask overflows
PushAborts(msk, cset) ==
    cset = <<>> \/ Mask_push_overflows(msk, Charset(cset))

\* readMask, "charset is not defined": return false, the mask is left as it is
UndefinedReference(msk) ==
    [ret |-> FALSE, mask |-> msk, abort |-> FALSE]

\* mutant: the first definition of the key
ReferencedCharset_First(defined_charsets, key) == defined_charsets[key][1]

\* std::prev(range.second)->second: the last definition of the key
ReferencedCharset(defined_charsets, key) ==
    defined_charsets[key][Len(defined_charsets[key])]

RECURSIVE readMask(_, _, _, _)
\* readMask: the charset pushed for the token at i; escape tells a ?K or ?? token
readMask_push(str, i, defined_charsets, msk, escape, cset) ==
    IF PushAborts(msk, cset) THEN [ret |-> FALSE, mask |-> msk, abort |-> TRUE]
    ELSE readMask(str, IF escape THEN i + 2 ELSE i + 1, defined_charsets,
                  Mask_push_charset_right(msk, Charset(cset)))

\* readMask(str, defined_charsets, mask) from the index i (1-based)
readMask(str, i, defined_charsets, msk) ==
    IF i > Len(str) THEN [ret |-> TRUE, mask |-> msk, abort |-> FALSE]
    ELSE IF str[i] = escapeChar /\ i + 1 <= Len(str)
    THEN IF str[i + 1] = escapeChar
         THEN readMask_push(str, i, defined_charsets, msk, TRUE, <<str[i]>>)
         ELSE IF CharsetMap_count(defined_charsets, str[i + 1]) # 0
         THEN readMask_push(str, i, defined_charsets, msk, TRUE,
                            ReferencedCharset(defined_charsets, str[i + 1]).cset)
         ELSE UndefinedReference(msk)
    ELSE readMask_push(str, i, defined_charsets, msk, FALSE, <<str[i]>>)

\* "split the line on ,": tokens, with the escaped characters taken literally
RECURSIVE SplitLine(_, _, _)
SplitLine(line, i, tokens) ==
    IF i > Len(line) THEN tokens
    ELSE IF line[i] = lineEscapeChar /\ i + 1 <= Len(line)
    THEN SplitLine(line, i + 2, [tokens EXCEPT ![Len(tokens)] = Append(@, line[i + 1])])
    ELSE IF line[i] = separatorChar
    THEN SplitLine(line, i + 1, Append(tokens, <<>>))
    ELSE SplitLine(line, i + 1, [tokens EXCEPT ![Len(tokens)] = Append(@, line[i])])

\* T('1' + n)
CharsetKey(n) == <<"1", "2", "3", "4", "5", "6", "7", "8", "9">>[n + 1]

\* "create the user defined charsets without expanding them", for n, n + 1, ...
RECURSIVE CreateCharsets(_, _, _)
CreateCharsets(tokens, n, effective_charsets) ==
    IF n + 1 >= Len(tokens) THEN [ret |-> TRUE, effective_charsets |-> effective_charsets]
    ELSE IF tokens[n + 1] = <<>> THEN [ret |-> FALSE, effective_charsets |-> effective_charsets]
    ELSE CreateCharsets(tokens, n + 1,
                        CharsetMap_insert(effective_charsets, CharsetKey(n),
                                          [cset |-> tokens[n + 1], final |-> FALSE]))

\* "now expand all the user defined charsets", for n, n + 1, ...; e is the
\* result of expandCharset for n
RECURSIVE ExpandCharsets(_, _, _)
ExpandCharsets_next(tokens, n, e) ==
    IF ~e.ret THEN [ret |-> FALSE, effective_charsets |-> e.charsets]
    ELSE ExpandCharsets(tokens, n + 1, e.charsets)

ExpandCharsets(tokens, n, effective_charsets) ==
    IF n + 1 >= Len(tokens) THEN [ret |-> TRUE, effective_charsets |-> effective_charsets]
    ELSE ExpandCharsets_next(tokens, n, expandCharset(effective_charsets, CharsetKey(n)))

\* mutant: no line is a comment
CommentLine_Never(line) == FALSE

\* if (line_len == 0 || line[0] == commentChar)
CommentLine(line) == Len(line) = 0 \/ line[1] = commentChar

\* readMaskLine_ from mask.clear(): r is the result of readMask, which is not
\* looked at; the line is refused when the mask has no position
readMaskLine_mask(effective_charsets, r) ==
    [ret |-> ~r.abort /\ Mask_getWidth(r.mask) # 0, mask |-> r.mask, abort |-> r.abort,
     effective_charsets |-> effective_charsets]

\* readMaskLine_ once the charsets of the line are expanded
readMaskLine_expanded(tokens, expanded, msk) ==
    IF ~expanded.ret
    THEN [ret |-> FALSE, mask |-> msk, abort |-> FALSE,
          effective_charsets |-> expanded.effective_charsets]
    ELSE readMaskLine_mask(expanded.effective_charsets,
                           readMask(tokens[Len(tokens)], 1, expanded.effective_charsets,
                                    Mask_clear(msk)))

\* readMaskLine_ once the charsets of the line are created
readMaskLine_created(tokens, created, msk) ==
    IF ~created.ret
    THEN [ret |-> FALSE, mask |-> msk, abort |-> FALSE,
          effective_charsets |-> created.effective_charsets]
    ELSE readMaskLine_expanded(tokens, ExpandCharsets(tokens, 0, created.effective_charsets), msk)

\* readMaskLine_ once the line is split
readMaskLine_tokens(tokens, charsets, msk) ==
    IF Len(tokens) > 10
    THEN [ret |-> FALSE, mask |-> msk, abort |-> FALSE, effective_charsets |-> charsets]
    ELSE readMaskLine_created(tokens, CreateCharsets(tokens, 0, charsets), msk)

\* readMaskLine_(line, line_len, charsets, mask)
readMaskLine_(line, charsets, msk) ==
    IF CommentLine(line)
    THEN [ret |-> TRUE, mask |-> msk, abort |-> FALSE, effective_charsets |-> charsets]
    ELSE readMaskLine_tokens(SplitLine(line, 1, << <<>> >>), charsets, msk)

\* MaskFileGenerator(content, content_len, command_line_mask, filename, charsets)
MaskFileGenerator(content, command_line_mask, charsets) ==
    [m_content |-> content, m_command_line_mask |-> command_line_mask,
     m_charsets |-> charsets, m_p |-> 0, m_line_number |-> 0, m_error |-> FALSE]

\* mutant: the read position is kept
MaskFileGenerator_reset_KeepPosition(gen) ==
    [gen EXCEPT !.m_line_number = 0, !.m_error = FALSE]

\* void reset()
MaskFileGenerator_reset(gen) ==
    [gen EXCEPT !.m_p = 0, !.m_line_number = 0, !.m_error = FALSE]

\* bool good()
MaskFileGenerator_good(gen) == ~gen.m_error

\* the first '\n' of content after the offset p, 0 when there is none (memchr)
RECURSIVE memchr_LF(_, _)
memchr_LF(content, p) ==
    IF p >= Len(content) THEN 0
    ELSE IF content[p + 1] = "LF" THEN p + 1
    ELSE memchr_LF(content, p + 1)

\* readline: the length of the next line with its '\n', 0 when nothing is left
readline(gen) ==
    IF Len(gen.m_content) - gen.m_p = 0 THEN 0
    ELSE IF memchr_LF(gen.m_content, gen.m_p) # 0
    THEN memchr_LF(gen.m_content, gen.m_p) - gen.m_p
    ELSE Len(gen.m_content) - gen.m_p

\* the line without its "\r\n" or "\n"
StripNewline(raw) ==
    IF Len(raw) >= 2 /\ raw[Len(raw)] = "LF" /\ raw[Len(raw) - 1] = "CR"
    THEN SubSeq(raw, 1, Len(raw) - 2)
    ELSE IF Len(raw) >= 1 /\ raw[Len(raw)] = "LF"
    THEN SubSeq(raw, 1, Len(raw) - 1)
    ELSE raw

\* mutant: the charsets of a line stay in the generator
KeptCharsets_OfLine(m_charsets, effective_charsets) == effective_charsets

\* const CharsetMap<T> m_charsets: readMaskLine_ works on its own copy
KeptCharsets(m_charsets, effective_charsets) == m_charsets

\* operator(), if (m_command_line_mask): cm is the result of readMask on m_content
MaskFileGenerator_inline(gen, cm) ==
    IF cm.abort THEN [gen |-> gen, mask |-> cm.mask, ret |-> FALSE, abort |-> TRUE]
    ELSE IF Mask_getWidth(cm.mask) = 0
    THEN [gen |-> [gen EXCEPT !.m_error = TRUE], mask |-> cm.mask, ret |-> FALSE,
          abort |-> FALSE]
    ELSE [gen |-> gen, mask |-> cm.mask, ret |-> TRUE, abort |-> FALSE]

\* mutant: the flag tells the result of the last line only
ErrorFlag_OfLastLine(m_error, failed) == failed

\* m_error = true is the only assignment of operator(): the flag is kept otherwise
ErrorFlag(m_error, failed) == m_error \/ failed

\* operator(), "full parser when reading from a file": fm is the result of readMaskLine_
MaskFileGenerator_file(gen, fm) ==
    [gen |-> [gen EXCEPT !.m_charsets = KeptCharsets(@, fm.effective_charsets),
                         !.m_error = ErrorFlag(@, ~fm.abort /\ ~fm.ret)],
     mask |-> fm.mask, ret |-> ~fm.abort /\ fm.ret, abort |-> fm.abort]

\* bool operator()(Mask<T> &mask): the loop over the lines; gen has read the
\* line, which is line without its end
RECURSIVE MaskFileGenerator_call(_, _)
MaskFileGenerator_line(gen, msk, line) ==
    IF line = <<>> THEN MaskFileGenerator_call(gen, msk)
    ELSE IF gen.m_command_line_mask
    THEN MaskFileGenerator_inline(gen, readMask(gen.m_content, 1, gen.m_charsets, Mask_clear(msk)))
    ELSE MaskFileGenerator_file(gen, readMaskLine_(line, gen.m_charsets, Mask_clear(msk)))

MaskFileGenerator_call(gen, msk) ==
    IF readline(gen) = 0 THEN [gen |-> gen, mask |-> msk, ret |-> FALSE, abort |-> FALSE]
    ELSE MaskFileGenerator_line(
            [gen EXCEPT !.m_p = @ + readline(gen), !.m_line_number = @ + 1], msk,
            StripNewline(SubSeq(gen.m_content, gen.m_p + 1, gen.m_p + readline(gen))))

\* the lines a mask file is made of, and the inline masks
LinePool ==
    { <<"?", "1", "c">>,
      <<"?", "1", "c", ",", "?", "1">>,
      <<"#", "c">>,
      <<>>,
      <<"a", "?", "Z">>,
      <<"?", "Z", "b">>,
      <<"?", "?", "\\", ",", "?">> }

\* the command line arguments that name no file: the lines above and an
\* argument that holds a line feed
InlinePool == LinePool \cup { <<"a", "LF", "b">> }

\* the registry handed to the generator: work() has expanded every definition
FileRegistries ==
    { [k \in {"1"} |-> <<[cset |-> <<"c">>, final |-> TRUE],
                         [cset |-> <<"a", "b">>, final |-> TRUE]>>],
      [k \in {"2"} |-> <<[cset |-> <<"c">>, final |-> TRUE]>>] }

\* how the lines of a file end: "\n", "\r\n", or "\n" with none after the last line
LineEndings == {"unix", "dos", "open"}

RECURSIVE FileContent(_, _)
FileContent(lines, ending) ==
    IF lines = <<>> THEN <<>>
    ELSE Head(lines)
         \o (IF ending = "dos" THEN <<"CR", "LF">>
             ELSE IF ending = "open" /\ Len(lines) = 1 THEN <<>>
             ELSE <<"LF">>)
         \o FileContent(Tail(lines), ending)

\* the generators readMaskList__ creates: over the content of a file, or over
\* the command line argument
FileGenerators ==
    { MaskFileGenerator(FileContent(lines, ending), FALSE, charsets) :
        lines \in SeqsUpTo(LinePool, MaxLines), ending \in LineEndings,
        charsets \in FileRegistries }
    \cup
    { MaskFileGenerator(arg, TRUE, charsets) : arg \in InlinePool, charsets \in FileRegistries }

\* mf.resetAt before any reset()
NoReset == [n |-> -1, ended |-> FALSE]

\* SpecFile: mf.gen is the generator and mf.fresh the generator as constructed;
\* mf.mask is the Mask of the caller, mf.ret the result of the last next-mask
\* call ("mask" for true, "end" for false) and mf.good the result of good() after it; mf.yielded holds the masks
\* returned since construction or the last reset() up to the first call that
\* returned false (mf.ended), and mf.resetAt what was returned before the
\* last reset(); mf.flagged tells that a next-mask call has set the error flag,
\* mf.flaggedSinceReset that one has since the last reset().
InitFile ==
    /\ \E gen \in FileGenerators :
          mf = [pc |-> "run", gen |-> gen, fresh |-> gen, mask |-> EmptyMask,
                ret |-> "none", good |-> MaskFileGenerator_good(gen), yielded |-> <<>>, ended |-> FALSE,
                resetAt |-> NoReset, flagged |-> FALSE, flaggedSinceReset |-> FALSE]
    /\ IdleMask
    /\ IdleBrute
    /\ IdleExpand
    /\ wk = [pc |-> "idle"]
    /\ jb = [N |-> 0]

\* (*gen)(mask)
FileNextMask ==
    /\ mf.pc = "run"
    /\ LET r == MaskFileGenerator_call(mf.gen, mf.mask)
       IN  mf' = [mf EXCEPT !.gen = r.gen, !.mask = r.mask,
                            !.pc = IF r.abort THEN "aborted" ELSE "run",
                            !.ret = IF r.ret THEN "mask" ELSE "end",
                            !.good = MaskFileGenerator_good(r.gen),
                            !.yielded = IF r.ret /\ ~mf.ended THEN Append(@, r.mask) ELSE @,
                            !.ended = @ \/ ~r.ret,
                            !.flagged = @ \/ (r.gen.m_error /\ ~mf.gen.m_error),
                            !.flaggedSinceReset = @ \/ (r.gen.m_error /\ ~mf.gen.m_error)]
    /\ UNCHANGED <<mvars, bvars, wk, jb, ex>>

\* gen->reset()
FileReset ==
    /\ mf.pc = "run"
    /\ mf' = [mf EXCEPT !.gen = MaskFileGenerator_reset(mf.gen),
                        !.good = MaskFileGenerator_good(MaskFileGenerator_reset(mf.gen)),
                        !.yielded = <<>>, !.ended = FALSE, !.ret = "none",
                        !.resetAt = [n |-> Len(mf.yielded), ended |-> mf.ended],
                        !.flaggedSinceReset = FALSE]
    /\ UNCHANGED <<mvars, bvars, wk, jb, ex>>

NextFile ==
    \/ FileNextMask
    \/ FileReset

SpecFile == InitFile /\ [][NextFile]_vars

----------------------------------------------------------------------------
(* Built-in charsets and the charsets of the command line (work, up to the *)
(* creation of the mask generator).  The arguments and the built-in        *)
(* strings are bytes; Symbol is the name the model gives to each char or   *)
(* codepoint value.                                                        *)

Symbol ==
    <<"NUL", "x01", "x02", "x03", "x04", "x05", "x06", "x07", "x08", "x09", "LF", "x0B",
       "x0C", "CR", "x0E", "x0F", "x10", "x11", "x12", "x13", "x14", "x15", "x16", "x17",
       "x18", "x19", "x1A", "x1B", "x1C", "x1D", "x1E", "x1F", " ", "!", "\"", "#", "$",
       "%", "&", "'", "(", ")", "*", "+", ",", "-", ".", "/", "0", "1", "2", "3", "4",
       "5", "6", "7", "8", "9", ":", ";", "<", "=", ">", "?", "@", "A", "B", "C", "D",
       "E", "F", "G", "H", "I", "J", "K", "L", "M", "N", "O", "P", "Q", "R", "S", "T",
       "U", "V", "W", "X", "Y", "Z", "[", "\\", "]", "^", "_", "x60", "a", "b", "c", "d",
       "e", "f", "g", "h", "i", "j", "k", "l", "m", "n", "o", "p", "q", "r", "s", "t",
       "u", "v", "w", "x", "y", "z", "{", "|", "}", "~", "x7F", "x80", "x81", "x82",
       "x83", "x84", "x85", "x86", "x87", "x88", "x89", "x8A", "x8B", "x8C", "x8D", "x8E",
       "x8F", "x90", "x91", "x92", "x93", "x94", "x95", "x96", "x97", "x98", "x99", "x9A",
       "x9B", "x9C", "x9D", "x9E", "x9F", "xA0", "xA1", "xA2", "xA3", "xA4", "xA5", "xA6",
       "xA7", "xA8", "xA9", "xAA", "xAB", "xAC", "xAD", "xAE", "xAF", "xB0", "xB1", "xB2",
       "xB3", "xB4", "xB5", "xB6", "xB7", "xB8", "xB9", "xBA", "xBB", "xBC", "xBD", "xBE",
       "xBF", "xC0", "xC1", "xC2", "xC3", "xC4", "xC5", "xC6", "xC7", "xC8", "xC9", "xCA",
       "xCB", "xCC", "xCD", "xCE", "xCF", "xD0", "xD1", "xD2", "xD3", "xD4", "xD5", "xD6",
       "xD7", "xD8", "xD9", "xDA", "xDB", "xDC", "xDD", "xDE", "xDF", "xE0", "xE1", "xE2",
       "xE3", "xE4", "xE5", "xE6", "xE7", "xE8", "xE9", "xEA", "xEB", "xEC", "xED", "xEE",
       "xEF", "xF0", "xF1", "xF2", "xF3", "xF4", "xF5", "xF6", "xF7", "xF8", "xF9", "xFA",
       "xFB", "xFC", "xFD", "xFE", "xFF">>

\* the characters of a byte string / the codepoints of a decoded one, as symbols
Symbols(values) == [i \in 1..Len(values) |-> Symbol[values[i] + 1]]

default_charset_l ==
    <<97, 98, 99, 100, 101, 102, 103, 104, 105, 106, 107, 108, 109, 110, 111, 112, 113,
      114, 115, 116, 117, 118, 119, 120, 121, 122>>

default_charset_u ==
    <<65, 66, 67, 68, 69, 70, 71, 72, 73, 74, 75, 76, 77, 78, 79, 80, 81, 82, 83, 84, 85,
      86, 87, 88, 89, 90>>

default_charset_d ==
    <<48, 49, 50, 51, 52, 53, 54, 55, 56, 57>>

default_charset_s ==
    <<32, 33, 34, 35, 36, 37, 38, 39, 40, 41, 42, 43, 44, 45, 46, 47, 58, 59, 60, 61, 62,
      63, 64, 91, 92, 93, 94, 95, 96, 123, 124, 125, 126>>

default_charset_h ==
    <<48, 49, 50, 51, 52, 53, 54, 55, 56, 57, 97, 98, 99, 100, 101, 102>>

default_charset_H ==
    <<48, 49, 50, 51, 52, 53, 54, 55, 56, 57, 65, 66, 67, 68, 69, 70>>

default_charset_n == <<10>>

default_charset_r == <<13>>

default_charset_a ==
    <<63, 108, 63, 117, 63, 100, 63, 115>>

default_charset_b == [i \in 1..256 |-> i - 1]

\* initDefaultCharsetsAscii
initDefaultCharsetsAscii ==
    [k \in {"l", "u", "d", "s", "h", "H", "b", "n", "r", "a"} |->
        <<[cset |-> Symbols(CASE k = "l" -> default_charset_l
                              [] k = "u" -> default_charset_u
                              [] k = "d" -> default_charset_d
                              [] k = "s" -> default_charset_s
                              [] k = "h" -> default_charset_h
                              [] k = "H" -> default_charset_H
                              [] k = "b" -> default_charset_b
                              [] k = "n" -> default_charset_n
                              [] k = "r" -> default_charset_r
                              [] k = "a" -> default_charset_a),
           final |-> k # "a"]>>]

\* the charset the decoding of default_charset_h is appended to (l.100)
HexLowerTarget == "H"

\* UTF::decode_utf8(str, len, std::back_inserter(charsets[key].cset), ...)
\* on a registry whose charsets start empty
decodeInto(csets, key, str) ==
    [csets EXCEPT ![key] = @ \o Symbols(unicode_decode(str).output)]

\* initDefaultCharsetsUnicode
initDefaultCharsetsUnicode ==
    LET c0 == [k \in {"l", "u", "d", "s", "h", "H", "n", "r", "a"} |-> <<>>]
        c1 == decodeInto(c0, "l", default_charset_l)
        c2 == decodeInto(c1, "u", default_charset_u)
        c3 == decodeInto(c2, "d", default_charset_d)
        c4 == decodeInto(c3, "s", default_charset_s)
        c5 == decodeInto(c4, HexLowerTarget, default_charset_h)
        c6 == decodeInto(c5, "H", default_charset_H)
        c7 == decodeInto(c6, "n", default_charset_n)
        c8 == decodeInto(c7, "r", default_charset_r)
        c9 == decodeInto(c8, "a", default_charset_a)
    IN  [k \in DOMAIN c9 |-> <<[cset |-> c9[k], final |-> k # "a"]>>]

\* Helper::initDefaultCharsets(charsets)
initDefaultCharsets(unicode) ==
    IF unicode THEN initDefaultCharsetsUnicode ELSE initDefaultCharsetsAscii

\* the keys of the built-in charsets in the order of the map
BuiltinKeys == <<"H", "a", "b", "d", "h", "l", "n", "r", "s", "u">>

\* work(), "expand all the unexpanded charsets"
RECURSIVE work_expandAll(_, _)
work_expandAll_next(e, keys) ==
    IF ~e.ret THEN e ELSE work_expandAll(e.charsets, keys)

work_expandAll(charsets, keys) ==
    IF keys = <<>> THEN [ret |-> TRUE, charsets |-> charsets]
    ELSE IF CharsetMap_count(charsets, Head(keys)) = 0 THEN work_expandAll(charsets, Tail(keys))
    ELSE work_expandAll_next(expandCharset(charsets, Head(keys)), Tail(keys))

\* readCharsetAscii(spec, charset) when spec names no file
readCharsetAscii(spec) ==
    [ret |-> Len(spec) # 0, charset |-> Symbols(spec)]

\* readCharsetUtf8(spec, charset) when spec names no file; d is the result of
\* UTF::decode_utf8 on spec
readCharsetUtf8_decoded(spec, d) ==
    IF d.consumed # Len(spec) THEN [ret |-> FALSE, charset |-> <<>>]
    ELSE [ret |-> Len(d.output) # 0, charset |-> Symbols(d.output)]

readCharsetUtf8(spec) == readCharsetUtf8_decoded(spec, unicode_decode(spec))

\* Helper::readCharset(spec, charset)
readCharset(unicode, spec) ==
    IF unicode THEN readCharsetUtf8(spec) ELSE readCharsetAscii(spec)

\* Helper8bit::parseCharsetArg(spec, key, charset)
parseCharsetArgAscii(spec) ==
    IF Len(spec) < 3 \/ spec[2] # 58 THEN [ret |-> FALSE, key |-> "", charset |-> <<>>]
    ELSE [ret |-> readCharsetAscii(SubSeq(spec, 3, Len(spec))).ret,
          key |-> Symbol[spec[1] + 1],
          charset |-> readCharsetAscii(SubSeq(spec, 3, Len(spec))).charset]

\* HelperUnicode::parseCharsetArg(spec, key, charset); one is the result of
\* UTF::decode_one_utf8 on spec (one call of ReadUtf8Cp::read)
parseCharsetArgUtf8_key(spec, one) ==
    IF one.ret <= 0 THEN [ret |-> FALSE, key |-> "", charset |-> <<>>]
    ELSE IF Len(spec) < one.ret + 1 \/ spec[one.ret + 1] # 58
    THEN [ret |-> FALSE, key |-> "", charset |-> <<>>]
    ELSE [ret |-> readCharsetUtf8(SubSeq(spec, one.ret + 2, Len(spec))).ret,
          key |-> Symbol[one.cp + 1],
          charset |-> readCharsetUtf8(SubSeq(spec, one.ret + 2, Len(spec))).charset]

parseCharsetArgUtf8(spec) == parseCharsetArgUtf8_key(spec, ReadUtf8Cp_read(spec))

\* Helper::parseCharsetArg(spec, key, charset)
parseCharsetArg(unicode, spec) ==
    IF unicode THEN parseCharsetArgUtf8(spec) ELSE parseCharsetArgAscii(spec)

\* key = '0' + p.first
OptionKey(first) == Symbol[48 + first + 1]

\* the charset options of a command line, in the order given: first is the
\* number of -1 .. -4 and 0 for --charset, second the argument
CharsetOptions ==
    \* no charset option
    { <<>>,
    \* -1 '?l?,'
      <<[first |-> 1, second |-> <<63, 108, 63, 44>>]>>,
    \* -1 '?l,'
      <<[first |-> 1, second |-> <<63, 108, 44>>]>>,
    \* -1 'aab'
      <<[first |-> 1, second |-> <<97, 97, 98>>]>>,
    \* -1 '?d?h'
      <<[first |-> 1, second |-> <<63, 100, 63, 104>>]>>,
    \* --charset ',:-' -1 '?l?,'
      <<[first |-> 0, second |-> <<44, 58, 45>>], [first |-> 1, second |-> <<63, 108, 63, 44>>]>>,
    \* -1 '?H'
      <<[first |-> 1, second |-> <<63, 72>>]>>,
    \* -1 ''
      <<[first |-> 1, second |-> <<>>]>>,
    \* -1 with the single byte C3
      <<[first |-> 1, second |-> <<195>>]>>,
    \* --charset 'Zab'
      <<[first |-> 0, second |-> <<90, 97, 98>>]>>,
    \* -1 '?1'
      <<[first |-> 1, second |-> <<63, 49>>]>>,
    \* -1 '0' -1 '?1x'
      <<[first |-> 1, second |-> <<48>>], [first |-> 1, second |-> <<63, 49, 120>>]>> }

\* the mask argument of a command line
MaskArguments ==
    \* '?1'
    { <<63, 49>>,
    \* '?1?1'
      <<63, 49, 63, 49>>,
    \* '?H'
      <<63, 72>>,
    \* '?h'
      <<63, 104>>,
    \* '?d'
      <<63, 100>>,
    \* 'a?n'
      <<97, 63, 110>>,
    \* '??'
      <<63, 63>>,
    \* '?,'
      <<63, 44>>,
    \* ''
      <<>>,
    \* '?a'
      <<63, 97>> }

\* SpecCommandLine: cmd.unicode is the mode, cmd.given the charset options of the
\* command line, cmd.opts those still to be read, cmd.mask_arg the mask argument,
\* cmd.charsets the registry of work() and cmd.ret its return value (-1 while it
\* has not returned)
InitCommandLine ==
    /\ \E unicode \in BOOLEAN, opts \in CharsetOptions, mask_arg \in MaskArguments :
          cmd = [pc |-> "start", unicode |-> unicode, given |-> opts, opts |-> opts,
                mask_arg |-> mask_arg, charsets |-> <<>>, ret |-> -1]
    /\ mask = EmptyMask
    /\ w = <<>>
    /\ lastpos = -1
    /\ curAt = -1
    /\ nadv = 0
    /\ carry = FALSE
    /\ IdleShare
    /\ IdleUtf8
    /\ IdleBrute
    /\ IdleWork

\* work(): the built-in charsets are created and expanded; e is the result of
\* the loop over them
WorkInitCharsets_expanded(e) ==
    IF ~e.ret THEN cmd' = [cmd EXCEPT !.pc = "error", !.ret = 1, !.charsets = e.charsets]
    ELSE cmd' = [cmd EXCEPT !.pc = "options", !.charsets = e.charsets]

WorkInitCharsets ==
    /\ cmd.pc = "start"
    /\ WorkInitCharsets_expanded(work_expandAll(initDefaultCharsets(cmd.unicode), BuiltinKeys))
    /\ UNCHANGED <<mask, w, lastpos, curAt, nadv, carry, heap, utf, bvars, wvars>>

\* work(), "then expand": e is the result of expandCharset on the new definition
WorkCharsetOption_expanded(e) ==
    IF ~e.ret
    THEN cmd' = [cmd EXCEPT !.pc = "error", !.ret = 1, !.charsets = e.charsets, !.opts = Tail(@)]
    ELSE cmd' = [cmd EXCEPT !.charsets = e.charsets, !.opts = Tail(@)]

\* work(), one iteration of "create the charsets from the command line
\* arguments": r is the result of readCharset or of parseCharsetArg
WorkCharsetOption_read(key, r) ==
    IF ~r.ret THEN cmd' = [cmd EXCEPT !.pc = "error", !.ret = 1, !.opts = Tail(@)]
    ELSE WorkCharsetOption_expanded(
            expandCharset(CharsetMap_insert(cmd.charsets, key,
                                            [cset |-> r.charset, final |-> FALSE]), key))

WorkCharsetOption ==
    /\ cmd.pc = "options"
    /\ cmd.opts # <<>>
    /\ IF Head(cmd.opts).first > 0
       THEN WorkCharsetOption_read(OptionKey(Head(cmd.opts).first),
                                   readCharset(cmd.unicode, Head(cmd.opts).second))
       ELSE WorkCharsetOption_read(parseCharsetArg(cmd.unicode, Head(cmd.opts).second).key,
                                   parseCharsetArg(cmd.unicode, Head(cmd.opts).second))
    /\ UNCHANGED <<mask, w, lastpos, curAt, nadv, carry, heap, utf, bvars, wvars>>

\* work(), gen = Helper::readMaskList(mask_arg, charsets) when mask_arg names no
\* file: the generator reads the argument as an inline mask
WorkReadMaskList_created(gen) ==
    mf' = [pc |-> "run", gen |-> gen, fresh |-> gen, mask |-> EmptyMask,
           ret |-> "none", good |-> MaskFileGenerator_good(gen), yielded |-> <<>>,
           ended |-> FALSE, resetAt |-> NoReset, flagged |-> FALSE,
           flaggedSinceReset |-> FALSE]

WorkReadMaskList ==
    /\ cmd.pc = "options"
    /\ cmd.opts = <<>>
    /\ cmd' = [cmd EXCEPT !.pc = "masks"]
    /\ WorkReadMaskList_created(MaskFileGenerator(Symbols(cmd.mask_arg), TRUE, cmd.charsets))
    /\ UNCHANGED <<mask, w, lastpos, curAt, nadv, carry, heap, utf, bvars, wk, jb, ex>>

NextCommandLine ==
    \/ WorkInitCharsets
    \/ WorkCharsetOption
    \/ WorkReadMaskList
    \/ FileNextMask

SpecCommandLine == InitCommandLine /\ [][NextCommandLine]_vars

----------------------------------------------------------------------------
(* Range driver: work().                                                   *)
(*                                                                         *)
(* The MaskGenerator that work() drives is taken as the sequence of masks  *)
(* it returns (gen.masks) and the number of masks already returned         *)
(* (gen.pos); a '#' line of a mask file is returned as a cleared Mask of   *)
(* length 0.  wk holds the options and the locals of work().               *)

\* std::vector<T> buffer(8192)
BufferSize == 8192

\* the masks the generator can hold
MaskPool ==
    { EmptyMask,
      BuildMask(<< <<"a">> >>),
      BuildMask(<< <<"0", "1">> >>),
      BuildMask(<< <<"0", "1">>, <<"x", "y">> >>) }

NoJob == [m_job_set |-> FALSE, m_job_number |-> 0, m_job_total |-> 0]

\* -j J/N is accepted by real_main when 1 <= J <= N
JobOptions ==
    { [m_job_set |-> TRUE, m_job_number |-> J, m_job_total |-> N] :
        J \in 1..MaxJobs, N \in 1..MaxJobs } 

\* values of -b and -e: small indices and the largest uint64_t
IndexValues == 0..MaxIndex \cup {U64 - 1}

\* -z and -n
DelimOptions ==
    { [m_zero_delim |-> FALSE, m_no_delim |-> FALSE],
      [m_zero_delim |-> TRUE,  m_no_delim |-> FALSE],
      [m_zero_delim |-> FALSE, m_no_delim |-> TRUE] }

\* struct Options as filled by real_main
OptionsSet ==
    { [m_job_set |-> j.m_job_set, m_job_number |-> j.m_job_number, m_job_total |-> j.m_job_total,
       m_start_word_set |-> b # -1, m_start_word |-> IF b = -1 THEN 0 ELSE b,
       m_end_word_set |-> e # -1, m_end_word |-> IF e = -1 THEN 0 ELSE e,
       m_zero_delim |-> d.m_zero_delim, m_no_delim |-> d.m_no_delim,
       m_print_size |-> s] :
        j \in {NoJob}, b \in IndexValues \cup {-1}, e \in IndexValues \cup {-1},
        d \in DelimOptions, s \in BOOLEAN }
    \cup
    { [m_job_set |-> j.m_job_set, m_job_number |-> j.m_job_number, m_job_total |-> j.m_job_total,
       m_start_word_set |-> FALSE, m_start_word |-> 0,
       m_end_word_set |-> FALSE, m_end_word |-> 0,
       m_zero_delim |-> FALSE, m_no_delim |-> FALSE,
       m_print_size |-> s] :
        j \in {o \in JobOptions : o.m_job_number <= o.m_job_total}, s \in BOOLEAN }

\* the state of work() once the generator has been created
WorkStart(masks, options) ==
    [pc           |-> "count",
     options      |-> options,
     gen          |-> [masks |-> masks, pos |-> 0],
     ml_len       |-> 0,
     ml_max_width |-> 0,
     start_idx    |-> 0,
     end_idx      |-> 0,
     todo         |-> 0,
     current_mask |-> EmptyMask,
     word         |-> <<>>,
     buffer       |-> <<>>,
     sink         |-> <<>>,
     printed      |-> 0,
     out          |-> <<>>,      \* the words copied to the buffer so far
     range        |-> <<0, 0>>,  \* start_idx and end_idx as range resolution left them
     fdout        |-> "closed",
     ret          |-> -1]

\* the state of work() over a MaskFileGenerator
WorkStartFile(gen, options) ==
    [WorkStart(<<>>, options) EXCEPT !.gen = gen]

\* (*gen)(mask): the next mask, or FALSE with the mask untouched; a
\* MaskFileGenerator is run by its own operator()
GenNext(gen, m) ==
    IF "masks" \notin DOMAIN gen THEN MaskFileGenerator_call(gen, m)
    ELSE IF gen.pos < Len(gen.masks)
    THEN [gen |-> [gen EXCEPT !.pos = @ + 1], mask |-> gen.masks[gen.pos + 1], ret |-> TRUE,
          abort |-> FALSE]
    ELSE [gen |-> gen, mask |-> m, ret |-> FALSE, abort |-> FALSE]

\* gen->good()
GenGood(gen) ==
    IF "masks" \notin DOMAIN gen THEN MaskFileGenerator_good(gen) ELSE TRUE

\* gen->reset()
GenReset(gen) ==
    IF "masks" \notin DOMAIN gen THEN MaskFileGenerator_reset(gen) ELSE [gen EXCEPT !.pos = 0]

\* one iteration of the counting loop whose next-mask call returns a mask
WorkCount ==
    /\ wk.pc = "count"
    /\ GenGood(wk.gen)
    /\ LET r == GenNext(wk.gen, EmptyMask)
           size == Mask_getLen(r.mask)
           width == Mask_getWidth(r.mask)
       IN  /\ r.ret \/ r.abort
           /\ IF r.abort \/ uadd64_overflow(wk.ml_len, size)
              THEN wk' = [wk EXCEPT !.gen = r.gen, !.pc = "aborted"]
              ELSE wk' = [wk EXCEPT !.gen = r.gen,
                                    !.ml_len = wk.ml_len + size,
                                    !.ml_max_width = Max(wk.ml_max_width, width)]

\* mutant: the remainder goes to the last jobs
JobRange_RemainderLast(ml_len, J, N) ==
    LET q == ml_len \div N
        r == ml_len - q * N
        first == IF J - 1 < N - r THEN q * (J - 1) ELSE q * (J - 1) + (J - 1 - (N - r))
        todo == q + (IF J > N - r THEN 1 ELSE 0)
    IN  [start_idx |-> first % U64, end_idx |-> (first + todo) % U64]

\* start_idx and end_idx from a job specification
JobRange(ml_len, J, N) ==
    LET q == ml_len \div N
        r == (ml_len - q * N) % U64
        first == (q * (J - 1)) % U64
        start == IF r # 0 THEN (first + Min(J - 1, r)) % U64 ELSE first
        todo == IF r # 0 THEN q + (IF J <= r THEN 1 ELSE 0) ELSE q
    IN  [start_idx |-> start, end_idx |-> (start + todo) % U64]

\* start_idx and end_idx from --begin / --end
BeginEndRange(ml_len, o) ==
    [start_idx |-> IF o.m_start_word_set THEN o.m_start_word ELSE 0,
     end_idx   |-> IF o.m_end_word_set THEN (o.m_end_word + 1) % U64 ELSE ml_len]

\* mutant: the test written without the wrap of end_idx - 1
RangeRejected_NoWrap(rg, ml_len) ==
    rg.end_idx - 1 < rg.start_idx \/ rg.end_idx > ml_len

\* if (end_idx - 1 < start_idx || end_idx > ml_len), on uint64_t
RangeRejected(rg, ml_len) ==
    (rg.end_idx - 1) % U64 < rg.start_idx \/ rg.end_idx > ml_len

\* a uint64_t printed with "%" PRId64
PRId64(v) == IF v >= U64 \div 2 THEN v - U64 ELSE v

\* if (!gen->good()) after the counting loop
GeneratorFailed(gen) == ~GenGood(gen)

\* the counting loop ends; the error flag of the generator, range resolution,
\* --size, allocation of word and buffer, opening of the output, gen->reset()
WorkResolveRange ==
    /\ wk.pc = "count"
    /\ LET o  == wk.options
           last == GenNext(wk.gen, EmptyMask)
           gen == IF GenGood(wk.gen) THEN last.gen ELSE wk.gen
           rg == IF o.m_job_set THEN JobRange(wk.ml_len, o.m_job_number, o.m_job_total)
                 ELSE BeginEndRange(wk.ml_len, o)
       IN  /\ ~GenGood(wk.gen) \/ (~last.ret /\ ~last.abort)
           /\ IF GeneratorFailed(gen)
              THEN wk' = [wk EXCEPT !.pc = "generror", !.ret = 1, !.gen = gen]
              ELSE IF ~o.m_job_set /\ RangeRejected(rg, wk.ml_len)
              THEN wk' = [wk EXCEPT !.pc = "error", !.ret = 1,
                                    !.start_idx = rg.start_idx, !.end_idx = rg.end_idx]
              ELSE IF o.m_print_size
              THEN wk' = [wk EXCEPT !.pc = "size", !.ret = 0,
                                    !.start_idx = rg.start_idx, !.end_idx = rg.end_idx,
                                    !.range = <<rg.start_idx, rg.end_idx>>,
                                    !.printed = PRId64((rg.end_idx - rg.start_idx) % U64)]
              ELSE IF wk.ml_max_width + 1 > BufferSize
              THEN wk' = [wk EXCEPT !.pc = "toolong", !.ret = 1,
                                    !.start_idx = rg.start_idx, !.end_idx = rg.end_idx,
                                    !.range = <<rg.start_idx, rg.end_idx>>]
              ELSE wk' = [wk EXCEPT !.pc = "skip",
                                    !.start_idx = rg.start_idx,
                                    !.end_idx = rg.end_idx,
                                    !.range = <<rg.start_idx, rg.end_idx>>,
                                    !.todo = (rg.end_idx - rg.start_idx) % U64,
                                    !.word = [i \in 1..(wk.ml_max_width + 1) |-> "NUL"],
                                    !.fdout = "open",
                                    !.gen = GenReset(gen)]

\* one iteration of while (start_idx)
WorkSkip ==
    /\ wk.pc = "skip"
    /\ wk.start_idx # 0
    /\ LET r == GenNext(wk.gen, wk.current_mask)
           mask_len == Mask_getLen(r.mask)
       IN  IF wk.start_idx >= mask_len
           THEN wk' = [wk EXCEPT !.gen = r.gen, !.current_mask = r.mask,
                                 !.start_idx = wk.start_idx - mask_len]
           ELSE wk' = [wk EXCEPT !.gen = r.gen, !.current_mask = r.mask, !.pc = "emit"]

\* if (start_idx == 0) (*gen)(current_mask)
WorkLoad ==
    /\ wk.pc = "skip"
    /\ wk.start_idx = 0
    /\ LET r == GenNext(wk.gen, wk.current_mask)
       IN  wk' = [wk EXCEPT !.gen = r.gen, !.current_mask = r.mask, !.pc = "emit"]

\* mutant: the buffer is never flushed before a word is copied
AppendWord_NoFlush(st, word, width, delim_width) ==
    [buffer |-> st.buffer \o SubSeq(word, 1, width + delim_width),
     sink   |-> st.sink,
     out    |-> Append(st.out, SubSeq(word, 1, width))]

\* word[w] = delim, flush when w + delim_width does not fit, memcpy, buffer_p += ...
AppendWord(st, word, width, delim_width) ==
    LET symbols == SubSeq(word, 1, width + delim_width)
        flush   == width + delim_width > BufferSize - Len(st.buffer)
    IN  [buffer |-> (IF flush THEN <<>> ELSE st.buffer) \o symbols,
         sink   |-> IF flush THEN st.sink \o st.buffer ELSE st.sink,
         out    |-> Append(st.out, SubSeq(word, 1, width))]

\* mutant: every word of a chunk is produced by getNext, the first one too
RECURSIVE EmitChunk_NoCurrent(_, _, _, _, _, _)
EmitChunk_NoCurrent(m, word, st, i, chunk, o) ==
    IF i >= chunk THEN [mask |-> m, word |-> word, st |-> st]
    ELSE LET width == Mask_getWidth(m)
             delim == IF o.m_zero_delim THEN "NUL" ELSE "LF"
             delim_width == IF o.m_no_delim THEN 0 ELSE 1
             r  == Mask_getNext(m, word)
             w2 == [r.buf EXCEPT ![width + 1] = delim]
         IN  EmitChunk_NoCurrent(r.m, w2, AppendWord(st, w2, width, delim_width), i + 1, chunk, o)

\* the words i, i + 1, ..., chunk - 1 of one chunk: getCurrent for i = 0, getNext after
RECURSIVE EmitChunk(_, _, _, _, _, _)
EmitChunk(m, word, st, i, chunk, o) ==
    IF i >= chunk THEN [mask |-> m, word |-> word, st |-> st]
    ELSE LET width == Mask_getWidth(m)
             delim == IF o.m_zero_delim THEN "NUL" ELSE "LF"
             delim_width == IF o.m_no_delim THEN 0 ELSE 1
             r  == IF i = 0 THEN [m |-> m, buf |-> Mask_getCurrent(m, word)]
                   ELSE Mask_getNext(m, word)
             w2 == [r.buf EXCEPT ![width + 1] = delim]
         IN  EmitChunk(r.m, w2, AppendWord(st, w2, width, delim_width), i + 1, chunk, o)

\* one iteration of while (todo)
WorkEmit ==
    /\ wk.pc = "emit"
    /\ wk.todo # 0
    /\ LET m0 == Mask_setPosition(wk.current_mask, wk.start_idx)
           mask_rem == (Mask_getLen(m0) - wk.start_idx) % U64
           chunk == Min(wk.todo, mask_rem)
           e == EmitChunk(m0, wk.word, [buffer |-> wk.buffer, sink |-> wk.sink, out |-> wk.out],
                          0, chunk, wk.options)
           todo2 == wk.todo - chunk
           r == IF todo2 # 0 THEN GenNext(wk.gen, e.mask)
                ELSE [gen |-> wk.gen, mask |-> e.mask, ret |-> FALSE]
       IN  wk' = [wk EXCEPT !.current_mask = r.mask,
                            !.gen = r.gen,
                            !.word = e.word,
                            !.buffer = e.st.buffer,
                            !.sink = e.st.sink,
                            !.out = e.st.out,
                            !.todo = todo2,
                            !.start_idx = IF todo2 # 0 THEN 0 ELSE wk.start_idx]

\* the last print, close(fdout), return 0
WorkFinish ==
    /\ wk.pc = "emit"
    /\ wk.todo = 0
    /\ wk' = [wk EXCEPT !.pc = "done", !.ret = 0,
                        !.sink = wk.sink \o wk.buffer, !.buffer = <<>>,
                        !.fdout = "closed"]

InitWork ==
    /\ \E masks \in SeqsUpTo(MaskPool, MaxMasks), o \in OptionsSet :
          wk = WorkStart(masks, o)
    /\ jb = [N |-> 0]
    /\ IdleExpand
    /\ IdleFile
    /\ IdleMask
    /\ IdleBrute

NextWork ==
    \/ WorkCount /\ UNCHANGED <<mvars, bvars, jb, xvars>>
    \/ WorkResolveRange /\ UNCHANGED <<mvars, bvars, jb, xvars>>
    \/ WorkSkip /\ UNCHANGED <<mvars, bvars, jb, xvars>>
    \/ WorkLoad /\ UNCHANGED <<mvars, bvars, jb, xvars>>
    \/ WorkEmit /\ UNCHANGED <<mvars, bvars, jb, xvars>>
    \/ WorkFinish /\ UNCHANGED <<mvars, bvars, jb, xvars>>

SpecWork == InitWork /\ [][NextWork]_vars

\* SpecWorkFair: the runs of SpecWork over at most two masks with --begin 0
\* or 1, --end 0, 1 or 2^64 - 1 and at most two jobs; work() is one
\* sequential function, it keeps running until it returns
FairOptions ==
    { o \in OptionsSet :
        /\ o.m_start_word \in {0, 1}
        /\ o.m_end_word \in {0, 1, U64 - 1}
        /\ o.m_job_set => o.m_job_total <= 2 }

InitWorkFair ==
    /\ \E masks \in SeqsUpTo(MaskPool, 2), o \in FairOptions :
          wk = WorkStart(masks, o)
    /\ jb = [N |-> 0]
    /\ IdleExpand
    /\ IdleFile
    /\ IdleMask
    /\ IdleBrute

SpecWorkFair == InitWorkFair /\ [][NextWork]_vars /\ WF_vars(NextWork)

\* SpecMaskList: a MaskList filled by pushMask, then positioned by
\* setPosition and walked by getFirstWord and getNext.  m_current_mask is the
\* 1-based index of the mask the iterator points to.  heap.ml is the list,
\* heap.w and heap.width the caller's word buffer and width, heap.op the last
\* call, heap.o the argument of the last setPosition, heap.n the number of
\* getNext calls made since, heap.ret the result of the last call.

\* void pushMask(const Mask<T> &mask), which aborts when m_len overflows
MaskList_pushMask(ml, m) ==
    [m_masks        |-> Append(ml.m_masks, m),
     m_len          |-> (ml.m_len + Mask_getLen(m)) % U64,
     m_current_mask |-> 1,
     m_mask_rem     |-> ml.m_mask_rem,
     m_max_width    |-> Max(ml.m_max_width, Mask_getWidth(m))]

\* MaskList() and one pushMask for each mask
RECURSIVE MaskList(_)
MaskList(masks) ==
    IF masks = <<>>
    THEN [m_masks |-> <<>>, m_len |-> 0, m_current_mask |-> 1, m_mask_rem |-> 0,
          m_max_width |-> 0]
    ELSE MaskList_pushMask(MaskList(SubSeq(masks, 1, Len(masks) - 1)), masks[Len(masks)])

\* "then get our starting position": the loop over the masks from it on
RECURSIVE MaskList_seek(_, _, _)
MaskList_seek(ml, it, o) ==
    IF it > Len(ml.m_masks) THEN ml
    ELSE LET s == Mask_getLen(ml.m_masks[it])
         IN  IF o < s
             THEN [ml EXCEPT !.m_current_mask = it,
                             !.m_mask_rem = s - o,
                             !.m_masks[it] = Mask_setPosition(@, o)]
             ELSE MaskList_seek(ml, it + 1, o - s)

\* void setPosition(uint64_t o)
MaskList_setPosition(ml, o) ==
    IF ml.m_len = 0 THEN ml
    ELSE MaskList_seek([ml EXCEPT !.m_masks = [i \in 1..Len(ml.m_masks) |->
                                                  Mask_setPosition(ml.m_masks[i], 0)]],
                       1, IF o >= ml.m_len THEN o % ml.m_len ELSE o)

\* std::next(m_current_mask) == m_masks.end()
MaskList_atLastMask(ml) == ml.m_current_mask + 1 = Len(ml.m_masks) + 1

\* bool getFirstWord(T *w, size_t *width)
MaskList_getFirstWord(ml, buf) ==
    LET rem == (ml.m_mask_rem - 1) % U64
    IN  [ml    |-> [ml EXCEPT !.m_mask_rem = rem],
         buf   |-> Mask_getCurrent(ml.m_masks[ml.m_current_mask], buf),
         width |-> Mask_getWidth(ml.m_masks[ml.m_current_mask]),
         ret   |-> rem = 0 /\ MaskList_atLastMask(ml)]

\* bool getNext(T *w, size_t *width)
MaskList_getNext(ml, buf) ==
    IF ml.m_mask_rem = 0
    THEN \* load next mask
         LET it == IF ml.m_current_mask + 1 = Len(ml.m_masks) + 1 THEN 1
                   ELSE ml.m_current_mask + 1
         IN  [ml    |-> [ml EXCEPT !.m_current_mask = it,
                                   !.m_mask_rem = (Mask_getLen(ml.m_masks[it]) - 1) % U64],
              buf   |-> Mask_getCurrent(ml.m_masks[it], buf),
              width |-> Mask_getWidth(ml.m_masks[it]),
              ret   |-> FALSE]
    ELSE LET r == Mask_getNext(ml.m_masks[ml.m_current_mask], buf)
             rem == ml.m_mask_rem - 1
         IN  [ml    |-> [ml EXCEPT !.m_masks[ml.m_current_mask] = r.m, !.m_mask_rem = rem],
              buf   |-> r.buf,
              width |-> Mask_getWidth(r.m),
              ret   |-> rem = 0 /\ MaskList_atLastMask(ml)]

\* the lists: one to MaxMasks masks of at least one word each ("our mask
\* can't be empty if properly initialized")
InitMaskList ==
    /\ \E masks \in SeqsUpTo(MaskPool \ {EmptyMask}, MaxMasks) \ {<<>>} :
          heap = [pc |-> "masklist", ml |-> MaskList(masks),
                  w |-> [i \in 1..MaskList(masks).m_max_width |-> Poison],
                  width |-> 0, op |-> "new", o |-> 0, n |-> 0, ret |-> FALSE]
    /\ mask = EmptyMask
    /\ w = <<>>
    /\ lastpos = -1
    /\ curAt = -1
    /\ nadv = 0
    /\ carry = FALSE
    /\ IdleUtf8
    /\ IdleCommandLine
    /\ IdleBrute
    /\ IdleWork

\* ml.setPosition(o)
MaskListSetPosition ==
    /\ heap.pc = "masklist"
    /\ \E o \in IndexValues :
          heap' = [heap EXCEPT !.ml = MaskList_setPosition(heap.ml, o),
                               !.op = "setPosition", !.o = o, !.n = 0]
    /\ UNCHANGED <<mask, w, lastpos, curAt, nadv, carry, utf, cmd, bvars, wvars>>

\* ml.getFirstWord(w, &width), the first call after setPosition
MaskListGetFirstWord ==
    /\ heap.pc = "masklist"
    /\ heap.op = "setPosition"
    /\ LET r == MaskList_getFirstWord(heap.ml, heap.w)
       IN  heap' = [heap EXCEPT !.ml = r.ml, !.w = r.buf, !.width = r.width,
                                !.ret = r.ret, !.op = "getFirstWord"]
    /\ UNCHANGED <<mask, w, lastpos, curAt, nadv, carry, utf, cmd, bvars, wvars>>

\* ml.getNext(w, &width), after getFirstWord
MaskListGetNext ==
    /\ heap.pc = "masklist"
    /\ heap.op \in {"getFirstWord", "getNext"}
    /\ heap.n < MaxNexts
    /\ LET r == MaskList_getNext(heap.ml, heap.w)
       IN  heap' = [heap EXCEPT !.ml = r.ml, !.w = r.buf, !.width = r.width,
                                !.ret = r.ret, !.op = "getNext", !.n = @ + 1]
    /\ UNCHANGED <<mask, w, lastpos, curAt, nadv, carry, utf, cmd, bvars, wvars>>

NextMaskList == MaskListSetPosition \/ MaskListGetFirstWord \/ MaskListGetNext

SpecMaskList == InitMaskList /\ [][NextMaskList]_vars

\* SpecBuffer: the loop while (todo) of work(), taken up at the head of an
\* iteration after n symbols were copied to the working buffer since its last
\* flush.  A run of SpecWork writes fewer than 2^U64Bits words of at most 3
\* symbols and never fills the 8192 symbols; in the program every n up to
\* 8192 is reached by whole words (words of 1 symbol with -n, of 1 and 2
\* symbols and their delimiter otherwise).  wk holds the locals the loop
\* uses; gen.masks are the masks from the current one on.

\* the words copied since the last flush: one word 0x when the filler words
\* alone cannot make n symbols, then words a
EarlierWords(n, delim_width) ==
    LET f    == 1 + delim_width
        lead == IF n % f = 0 THEN 0 ELSE 1
    IN  [k \in 1..(lead + (n - lead * (f + 1)) \div f) |->
            IF k <= lead THEN <<"0", "x">> ELSE <<"a">>]

\* the n symbols those words left in the buffer, delimiters included
EarlierSymbols(n, delim_width, delim) ==
    LET f    == 1 + delim_width
        lead == IF n % f = 0 THEN 0 ELSE 1
    IN  [i \in 1..n |->
            IF i <= lead * (f + 1) THEN <<"0", "x", delim>>[i]
            ELSE IF (i - lead * (f + 1) - 1) % f = 0 THEN "a" ELSE delim]

MasksLeft == SeqsUpTo(MaskPool \ {EmptyMask}, MaxLeft) \ {<<>>}

\* the words of the masks still to write
RECURSIVE LengthLeft(_)
LengthLeft(masks) ==
    IF masks = <<>> THEN 0 ELSE Mask_getLen(Head(masks)) + LengthLeft(Tail(masks))

MaxWidthOf(masks) ==
    CHOOSE x \in {Mask_getWidth(masks[i]) : i \in 1..Len(masks)} :
        \A i \in 1..Len(masks) : Mask_getWidth(masks[i]) <= x

EmissionTakenUp(n, d, masks, todo) ==
    [pc           |-> "emit",
     options      |-> d,
     gen          |-> [masks |-> masks, pos |-> 1],
     start_idx    |-> 0,
     todo         |-> todo,
     current_mask |-> masks[1],
     word         |-> [i \in 1..(MaxWidthOf(masks) + 1) |-> "NUL"],
     buffer       |-> EarlierSymbols(n, IF d.m_no_delim THEN 0 ELSE 1,
                                     IF d.m_zero_delim THEN "NUL" ELSE "LF"),
     sink         |-> <<>>,
     out          |-> EarlierWords(n, IF d.m_no_delim THEN 0 ELSE 1),
     fdout        |-> "open",
     ret          |-> -1]

InitBuffer ==
    /\ \E n \in (BufferSize - MaxFree)..BufferSize, d \in DelimOptions, masks \in MasksLeft :
          \E todo \in 1..LengthLeft(masks) :
             wk = EmissionTakenUp(n, d, masks, todo)
    /\ jb = [N |-> 0]
    /\ IdleExpand
    /\ IdleFile
    /\ IdleMask
    /\ IdleBrute

NextBuffer ==
    \/ WorkEmit /\ UNCHANGED <<mvars, bvars, jb, xvars>>
    \/ WorkFinish /\ UNCHANGED <<mvars, bvars, jb, xvars>>

SpecBuffer == InitBuffer /\ [][NextBuffer]_vars

\* SpecWorkFile: work() over a MaskFileGenerator; the whole run, --size, and
\* the runs --begin 1 and --end 1
FileOptions ==
    { o \in OptionsSet :
        /\ ~o.m_job_set /\ ~o.m_zero_delim /\ ~o.m_no_delim
        /\ o.m_start_word \in {0, 1} /\ o.m_end_word \in {0, 1}
        /\ ~(o.m_start_word_set /\ o.m_end_word_set)
        /\ (o.m_print_size => ~o.m_start_word_set /\ ~o.m_end_word_set) }

InitWorkFile ==
    /\ \E gen \in FileGenerators, o \in FileOptions : wk = WorkStartFile(gen, o)
    /\ jb = [N |-> 0]
    /\ IdleExpand
    /\ IdleFile
    /\ IdleMask
    /\ IdleBrute

SpecWorkFile == InitWorkFile /\ [][NextWork]_vars

\* SpecWorkOverflow: work() over mask files whose masks are long enough for a
\* product or the total to pass U64: charset 1 has U64 / 16 symbols and
\* charset 2 has 8
LongLinePool ==
    { <<"?", "1">>,
      <<"?", "2">>,
      <<"?", "1", "?", "2">>,
      <<"?", "2", "?", "1", "?", "2">> }

LongRegistry ==
    [k \in {"1", "2"} |->
        <<[cset |-> IF k = "1" THEN [i \in 1..(U64 \div 16) |-> i]
                               ELSE <<"a", "b", "c", "d", "e", "f", "g", "h">>,
           final |-> TRUE]>>]

\* --size, or a range that ends within the first words (-e, with or without -b)
ShortRangeOptions ==
    { o \in OptionsSet :
        /\ ~o.m_job_set /\ ~o.m_zero_delim /\ ~o.m_no_delim
        /\ o.m_start_word \in {0, 5}
        /\ IF o.m_end_word_set THEN o.m_end_word \in {2, MaxIndex}
           ELSE o.m_print_size /\ ~o.m_start_word_set }

InitWorkOverflow ==
    /\ \E lines \in SeqsUpTo(LongLinePool, MaxLines), o \in ShortRangeOptions :
          wk = WorkStartFile(MaskFileGenerator(FileContent(lines, "unix"), FALSE, LongRegistry), o)
    /\ jb = [N |-> 0]
    /\ IdleExpand
    /\ IdleFile
    /\ IdleMask
    /\ IdleBrute

SpecWorkOverflow == InitWorkOverflow /\ [][NextWork]_vars

----------------------------------------------------------------------------
(* SpecJobs: the mask list is generated by the N runs -j 1/N .. -j N/N one *)
(* after the other, then by one run without -j, -b or -e.  jb.run is the   *)
(* run in progress (N + 1 for the whole run); jb.ranges and jb.written     *)
(* collect the range and the bytes written by the finished job runs.       *)

JobRunOptions(J, N, d) ==
    [m_job_set |-> J <= N, m_job_number |-> IF J <= N THEN J ELSE 0,
     m_job_total |-> IF J <= N THEN N ELSE 0,
     m_start_word_set |-> FALSE, m_start_word |-> 0,
     m_end_word_set |-> FALSE, m_end_word |-> 0,
     m_zero_delim |-> d.m_zero_delim, m_no_delim |-> d.m_no_delim,
     m_print_size |-> FALSE]

InitJobs ==
    /\ \E masks \in SeqsUpTo(MaskPool, MaxMasks), N \in 1..MaxJobs, d \in DelimOptions :
          /\ wk = WorkStart(masks, JobRunOptions(1, N, d))
          /\ jb = [N |-> N, run |-> 1, ranges |-> <<>>, written |-> <<>>]
    /\ IdleExpand
    /\ IdleFile
    /\ IdleMask
    /\ IdleBrute

\* a job run has returned 0: its output is appended and the next run starts
JobsNextRun ==
    /\ wk.pc = "done"
    /\ jb.run <= jb.N
    /\ jb' = [jb EXCEPT !.run = @ + 1,
                        !.ranges = Append(@, wk.range),
                        !.written = @ \o wk.sink]
    /\ wk' = WorkStart(wk.gen.masks,
                       JobRunOptions(jb.run + 1, jb.N,
                                     [m_zero_delim |-> wk.options.m_zero_delim,
                                      m_no_delim |-> wk.options.m_no_delim]))
    /\ UNCHANGED <<mvars, bvars, xvars>>

NextJobs ==
    \/ NextWork
    \/ JobsNextRun

SpecJobs == InitJobs /\ [][NextJobs]_vars

----------------------------------------------------------------------------
(* Properties of the Mask odometer (SpecMask)                              *)

\* C5: for a Mask with len > 0 and o in [0, len), the word left in the buffer by
\* setPosition(0), getCurrent and then o calls of getNext is the word that
\* setPosition(o) followed by getCurrent produces.
C5_AdvanceAgreesWithSetPosition ==
    (lastpos = 0 /\ curAt = 0 /\ nadv < Mask_getLen(mask))
        => w = Mask_getCurrent(Mask_setPosition(mask, nadv), w)

\* a three-wide mask walked five words forward from position 0
C5_Witness ==
    /\ lastpos = 0 /\ curAt = 0 /\ nadv = 5
    /\ Mask_getWidth(mask) = 3 /\ Mask_getLen(mask) > 5
    /\ mask.m_charsets[3].m_p # 5

\* product of the lengths of the charsets to the right of position i
RECURSIVE SuffixProduct(_, _)
SuffixProduct(cs, i) ==
    IF i >= Len(cs) THEN 1 ELSE Len(cs[i + 1].m_set) * SuffixProduct(cs, i + 1)

\* C6: the word at index o has at position i the symbol
\* s_i[(o div (product of |s_j| for j > i)) mod |s_i|]: mixed radix, rightmost fastest.
C6_MixedRadixOrder ==
    (lastpos >= 0 /\ lastpos < Mask_getLen(mask) /\ curAt = 0 /\ nadv = 0)
        => \A i \in 1..Mask_getWidth(mask) :
              LET s == mask.m_charsets[i].m_set
              IN  w[i] = s[((lastpos \div SuffixProduct(mask.m_charsets, i)) % Len(s)) + 1]

\* charset 01 used three times: index 5 is the word 101 (000, 001, 010, 011, 100, 101, ...)
C6_Witness ==
    /\ [i \in 1..Len(mask.m_charsets) |-> mask.m_charsets[i].m_set]
          = << <<"0", "1">>, <<"0", "1">>, <<"0", "1">> >>
    /\ lastpos = 5 /\ curAt = 0 /\ nadv = 0
    /\ w = <<"1", "0", "1">>

\* position i is advanced by getNext iff every charset to its right wraps
Ticked(m, i) ==
    \A j \in (i + 1)..Len(m.m_charsets) :
        m.m_charsets[j].m_p = Len(m.m_charsets[j].m_set) - 1

\* C7: a getNext call writes the buffer only at the positions it advanced; every
\* position left of the leftmost advanced one keeps its value, poisoned or not.
C7_GetNextWritesOnlyTicked ==
    [][ (nadv' = nadv + 1) =>
          \A i \in 1..Len(w) :
              IF Ticked(mask, i)
              THEN /\ mask'.m_charsets[i].m_p = (mask.m_charsets[i].m_p + 1) % Len(mask.m_charsets[i].m_set)
                   /\ w'[i] = Charset_getCurrent(mask'.m_charsets[i])
              ELSE /\ mask'.m_charsets[i] = mask.m_charsets[i]
                   /\ w'[i] = w[i] ]_vars

\* getNext was called on a buffer never initialised: the left keeps the poison
C7_Witness ==
    /\ Len(w) = 3 /\ curAt = -1 /\ nadv = 2
    /\ w[1] = Poison /\ w[2] # Poison /\ w[3] # Poison

----------------------------------------------------------------------------
(* Bruteforce generator.                                                   *)
(*                                                                         *)
(* The generator record g holds FirstStageGen (state st1, vars.counts,     *)
(* vars.current_len, vars.gen2) and the chain of SecondStageGen instances  *)
(* gen2, gen2->ngen, ... (level d = 1, 2, ...): their state st[d], their   *)
(* vars.i i[d], how many of them are allocated, and the partial mask and   *)
(* counts vector that all of them share.  The coroutine states are the     *)
(* line numbers crReturn stores: 464, 479 (second stage), 563 (first).     *)
(* Constraint indices are 0-based as in the code; counts[k + 1] is         *)
(* counts[k].second.                                                       *)

\* the charset of the k-th constraint line (0-based)
ConstraintCharset(k) ==
    IF k = 0 THEN <<"0", "1">> ELSE << <<"a", "b", "c", "d", "e", "f">>[k] >>

\* readBruteforce: MAX is clamped to the width; MIN is stored as read
ConstrainedCharset(k, min_len, max_len, mask_len) ==
    [m_charset |-> Charset(ConstraintCharset(k)),
     m_min |-> min_len,
     m_max |-> IF max_len > mask_len THEN mask_len ELSE max_len]

\* new FirstStageGen(m_constraints, m_target_len)
FirstStageGen(constraints, target_len) ==
    [constraints |-> constraints,
     target_len  |-> target_len,
     st1         |-> 0,
     counts      |-> <<>>,
     current_len |-> 0,
     alloc       |-> 0,
     st          |-> [d \in 1..(target_len + 1) |-> 0],
     i           |-> [d \in 1..(target_len + 1) |-> 0],
     mask        |-> <<>>]

\* std::min(target_len - current_len, m_max - counts[0]) on unsigned int: when
\* counts[0] > m_max the difference wraps to at least 2^31 and the minimum is
\* the first operand
SkipDiff(g) ==
    LET gap == g.target_len - g.current_len
        c0  == g.counts[1]
        mx  == g.constraints[1].m_max
    IN  IF c0 <= mx THEN Min(gap, mx - c0) ELSE gap

\* mutant: an instance that is reused keeps the state of its previous run
PrepareChild_NoReset(g, d) ==
    IF g.alloc < d + 1
    THEN [g EXCEPT !.alloc = d + 1, !.st[d + 1] = g.st[d], !.i[d + 1] = g.i[d]]
    ELSE g

\* vars.ngen = new SecondStageGen(*this) or vars.ngen->reset(*this), for level d
PrepareChild(g, d) ==
    IF g.alloc < d + 1
    THEN [g EXCEPT !.alloc = d + 1, !.st[d + 1] = g.st[d], !.i[d + 1] = g.i[d]]
    ELSE [g EXCEPT !.st[d + 1] = 0, !.i[d + 1] = 0]

RECURSIVE SecondStageGen_call(_, _)
RECURSIVE SecondStageWhile(_, _)
RECURSIVE SecondStageLoop(_, _, _)

\* mutant: for (vars.i = counts.size(); vars.i-- > 0; ), the charsets are tried last first
RECURSIVE SecondStageLoop_Descending(_, _, _)
SecondStageLoop_Descending(d, g, entry) ==
    LET g1 == CASE entry = "init"   -> [g EXCEPT !.i[d] = Len(g.counts) - 1]
                [] entry = "resume" -> [g EXCEPT !.counts[g.i[d] + 1] = @ + 1,
                                                 !.mask = SubSeq(@, 1, Len(@) - 1),
                                                 !.i[d] = g.i[d] - 1]
                [] entry = "next"   -> [g EXCEPT !.i[d] = g.i[d] - 1]
        k  == g1.i[d]
    IN  IF k < 0 THEN [g |-> g1, ret |-> FALSE]
        ELSE IF g1.counts[k + 1] > 0
             THEN SecondStageWhile(d, PrepareChild([g1 EXCEPT !.counts[k + 1] = @ - 1,
                                                              !.mask = Append(@, k)], d))
             ELSE SecondStageLoop_Descending(d, g1, "next")

\* mutant: after the while loop the occurrence is not given back to counts
RECURSIVE SecondStageLoop_NoRestore(_, _, _)
SecondStageLoop_NoRestore(d, g, entry) ==
    LET g1 == CASE entry = "init"   -> [g EXCEPT !.i[d] = 0]
                [] entry = "resume" -> [g EXCEPT !.mask = SubSeq(@, 1, Len(@) - 1),
                                                 !.i[d] = g.i[d] + 1]
                [] entry = "next"   -> [g EXCEPT !.i[d] = g.i[d] + 1]
        k  == g1.i[d]
    IN  IF k >= Len(g1.counts) THEN [g |-> g1, ret |-> FALSE]
        ELSE IF g1.counts[k + 1] > 0
             THEN SecondStageWhile(d, PrepareChild([g1 EXCEPT !.counts[k + 1] = @ - 1,
                                                              !.mask = Append(@, k)], d))
             ELSE SecondStageLoop_NoRestore(d, g1, "next")

\* SecondStageGen::operator() of the instance at level d
SecondStageGen_call(d, g) ==
    CASE g.st[d] = 0 ->
            IF Len(g.mask) = g.target_len
            THEN [g |-> [g EXCEPT !.st[d] = 464], ret |-> TRUE]
            ELSE SecondStageLoop(d, g, "init")
      [] g.st[d] = 464 -> [g |-> g, ret |-> FALSE]
      [] g.st[d] = 479 -> SecondStageWhile(d, g)

\* while ((*vars.ngen)(mask_out)) { crReturn }, then the end of the loop body
SecondStageWhile(d, g) ==
    LET r == SecondStageGen_call(d + 1, g) IN
    IF r.ret THEN [g |-> [r.g EXCEPT !.st[d] = 479], ret |-> TRUE]
    ELSE SecondStageLoop(d, r.g, "resume")

\* for (vars.i = 0; vars.i < counts.size(); vars.i++), entered
\*   "init"   at vars.i = 0,
\*   "resume" after the while loop: counts[i].second++, mask->pop_back(), vars.i++,
\*   "next"   at vars.i++ when counts[i].second was 0
SecondStageLoop(d, g, entry) ==
    LET g1 == CASE entry = "init"   -> [g EXCEPT !.i[d] = 0]
                [] entry = "resume" -> [g EXCEPT !.counts[g.i[d] + 1] = @ + 1,
                                                 !.mask = SubSeq(@, 1, Len(@) - 1),
                                                 !.i[d] = g.i[d] + 1]
                [] entry = "next"   -> [g EXCEPT !.i[d] = g.i[d] + 1]
        k  == g1.i[d]
    IN  IF k >= Len(g1.counts) THEN [g |-> g1, ret |-> FALSE]
        ELSE IF g1.counts[k + 1] > 0
             THEN SecondStageWhile(d, PrepareChild([g1 EXCEPT !.counts[k + 1] = @ - 1,
                                                              !.mask = Append(@, k)], d))
             ELSE SecondStageLoop(d, g1, "next")

\* the carry loop that increments the combination; it is the 1-based wheel
RECURSIVE IncrementLoop(_, _)
IncrementLoop(g, it) ==
    IF it > Len(g.counts) THEN [g |-> g, carry |-> TRUE]
    ELSE LET c  == g.counts[it] + 1
             cl == g.current_len + 1
         IN  IF c > g.constraints[it].m_max \/ cl > g.target_len
             THEN IncrementLoop([g EXCEPT !.counts[it] = g.constraints[it].m_min,
                                          !.current_len = cl - c + g.constraints[it].m_min],
                                it + 1)
             ELSE [g |-> [g EXCEPT !.counts[it] = c, !.current_len = cl], carry |-> FALSE]

\* "skip a few invalid combinations"
SkipInvalid(g) ==
    IF g.current_len < g.target_len
    THEN LET diff == SkipDiff(g)
         IN  [g EXCEPT !.counts[1] = @ + diff, !.current_len = @ + diff]
    ELSE g

RECURSIVE FirstStageTop(_)
RECURSIVE FirstStageWhile(_)
RECURSIVE FirstStageIncrement(_)

\* body of while (true), from its top
FirstStageTop(g) ==
    LET g1 == SkipInvalid(g) IN
    IF g1.current_len = g1.target_len
    THEN \* new SecondStageGen(counts, target_len) or gen2->reset(counts, target_len)
         FirstStageWhile([g1 EXCEPT !.alloc = Max(@, 1), !.st[1] = 0, !.i[1] = 0,
                                    !.mask = <<>>])
    ELSE FirstStageIncrement(g1)

\* while ((*vars.gen2)(mask_out)) { crReturn }
FirstStageWhile(g) ==
    LET r == SecondStageGen_call(1, g) IN
    IF r.ret THEN [g |-> [r.g EXCEPT !.st1 = 563], ret |-> TRUE]
    ELSE FirstStageIncrement(r.g)

FirstStageIncrement(g) ==
    LET r == IncrementLoop(g, 1) IN
    IF r.carry THEN [g |-> r.g, ret |-> FALSE]
    ELSE FirstStageTop(r.g)

\* f[1] + ... + f[n]
RECURSIVE SumSeq(_, _)
SumSeq(f, n) == IF n = 0 THEN 0 ELSE f[n] + SumSeq(f, n - 1)

\* FirstStageGen::operator()
FirstStageGen_call(g) ==
    IF g.st1 = 0
    THEN LET mins == [k \in 1..Len(g.constraints) |-> g.constraints[k].m_min]
         IN  FirstStageTop([g EXCEPT !.counts = mins,
                                     !.current_len = SumSeq(mins, Len(mins))])
    ELSE FirstStageWhile(g)

\* BruteforceGenerator constructor
BruteforceGenerator(constraints, target_len) ==
    [m_constraints |-> constraints,
     m_target_len  |-> target_len,
     m_gen         |-> FirstStageGen(constraints, target_len),
     m_done        |-> FALSE,
     pc            |-> "run"]

\* mutant: the flag is not looked at, an exhausted coroutine is called again
Exhausted_Never(gen) == FALSE

\* if (m_done) return false
Exhausted(gen) == gen.m_done

\* bool good(): "we don't do errors here"
BruteforceGenerator_good(gen) == TRUE

\* the Mask built by operator()(Mask&) from mask_l, and whether a push aborts
RECURSIVE MaskOf(_, _)
MaskOf(constraints, mask_l) ==
    IF mask_l = <<>> THEN EmptyMask
    ELSE Mask_push_charset_right(MaskOf(constraints, SubSeq(mask_l, 1, Len(mask_l) - 1)),
                                 constraints[mask_l[Len(mask_l)] + 1].m_charset)

RECURSIVE MaskOfOverflows(_, _)
MaskOfOverflows(constraints, mask_l) ==
    IF mask_l = <<>> THEN FALSE
    ELSE \/ MaskOfOverflows(constraints, SubSeq(mask_l, 1, Len(mask_l) - 1))
         \/ Mask_push_overflows(MaskOf(constraints, SubSeq(mask_l, 1, Len(mask_l) - 1)),
                                constraints[mask_l[Len(mask_l)] + 1].m_charset)

\* the size computed by operator()(size, width): -1 when umul64_overflow aborts
RECURSIVE SizeOf(_, _, _)
SizeOf(constraints, mask_l, size) ==
    IF mask_l = <<>> THEN size
    ELSE LET l == Charset_getLen(constraints[mask_l[1] + 1].m_charset)
         IN  IF umul64_overflow(size, l) THEN -1
             ELSE SizeOf(constraints, Tail(mask_l), size * l)

InitBrute ==
    /\ \E W \in 0..MaxW, K \in 1..MaxK :
          \E mins \in [1..K -> 0..MaxMin], maxs \in [1..K -> 0..MaxMaxIn] :
             bf = BruteforceGenerator(
                    [k \in 1..K |-> ConstrainedCharset(k - 1, mins[k], maxs[k], W)], W)
    /\ yielded = <<>>
    /\ bout = [kind |-> "none"]
    /\ bret = FALSE
    /\ IdleMask
    /\ IdleWork

\* bool operator()(Mask<T> &mask)
BruteNextMask ==
    /\ bf.pc = "run"
    /\ IF Exhausted(bf)
       THEN /\ bret' = FALSE
            /\ UNCHANGED <<bf, yielded, bout>>
       ELSE LET r == FirstStageGen_call(bf.m_gen) IN
            IF r.ret
            THEN IF MaskOfOverflows(bf.m_constraints, r.g.mask)
                 THEN /\ bf' = [bf EXCEPT !.m_gen = r.g, !.pc = "aborted"]
                      /\ UNCHANGED <<yielded, bout, bret>>
                 ELSE /\ bf' = [bf EXCEPT !.m_gen = r.g]
                      /\ yielded' = Append(yielded, r.g.mask)
                      /\ bout' = [kind |-> "mask", mask |-> MaskOf(bf.m_constraints, r.g.mask)]
                      /\ bret' = TRUE
            ELSE /\ bf' = [bf EXCEPT !.m_gen = r.g, !.m_done = TRUE]
                 /\ bret' = FALSE
                 /\ UNCHANGED <<yielded, bout>>
    /\ UNCHANGED <<mvars, wvars>>

\* bool operator()(uint64_t &size, size_t &width)
BruteNextSize ==
    /\ bf.pc = "run"
    /\ IF Exhausted(bf)
       THEN /\ bret' = FALSE
            /\ UNCHANGED <<bf, yielded, bout>>
       ELSE LET r == FirstStageGen_call(bf.m_gen) IN
            IF r.ret
            THEN LET width == bf.m_target_len
                     size  == SizeOf(bf.m_constraints, r.g.mask, IF width = 0 THEN 0 ELSE 1)
                 IN  IF size = -1
                     THEN /\ bf' = [bf EXCEPT !.m_gen = r.g, !.pc = "aborted"]
                          /\ UNCHANGED <<yielded, bout, bret>>
                     ELSE /\ bf' = [bf EXCEPT !.m_gen = r.g]
                          /\ yielded' = Append(yielded, r.g.mask)
                          /\ bout' = [kind |-> "size", size |-> size, width |-> width]
                          /\ bret' = TRUE
            ELSE /\ bf' = [bf EXCEPT !.m_gen = r.g, !.m_done = TRUE]
                 /\ bret' = FALSE
                 /\ UNCHANGED <<yielded, bout>>
    /\ UNCHANGED <<mvars, wvars>>

\* void reset(): a new FirstStageGen; the log of returned masks starts again
BruteReset ==
    /\ bf.pc = "run"
    /\ bf' = [bf EXCEPT !.m_gen = FirstStageGen(bf.m_constraints, bf.m_target_len),
                        !.m_done = FALSE]
    /\ yielded' = <<>>
    /\ UNCHANGED <<bout, bret, mvars, wvars>>

NextBrute == BruteNextMask \/ BruteNextSize \/ BruteReset

SpecBrute == InitBrute /\ [][NextBrute]_vars

\* SpecGenerators: one MaskGenerator of either class, a BruteforceGenerator or
\* a MaskFileGenerator, driven by its next-mask and reset calls
InitGenerators == InitBrute \/ InitFile

NextGenerators ==
    \/ IdleFile /\ BruteNextMask
    \/ IdleFile /\ BruteNextSize
    \/ IdleFile /\ BruteReset
    \/ FileNextMask
    \/ FileReset

SpecGenerators == InitGenerators /\ [][NextGenerators]_vars

\* MaskGenerator::operator()(size, width), which MaskFileGenerator inherits:
\* r is the result of (*this)(tmpmask) on a new Mask; the Mask of the caller
\* is not passed.  bout.at records the position of the call in the sequence
\* (0 for a call after the end of the sequence).
FileNextSize_called(r) ==
    /\ mf' = [mf EXCEPT !.gen = r.gen,
                        !.pc = IF r.abort THEN "aborted" ELSE "run",
                        !.ret = IF r.ret THEN "mask" ELSE "end",
                        !.good = MaskFileGenerator_good(r.gen),
                        !.yielded = IF r.ret /\ ~mf.ended THEN Append(@, r.mask) ELSE @,
                        !.ended = @ \/ ~r.ret,
                        !.flagged = @ \/ (r.gen.m_error /\ ~mf.gen.m_error),
                        !.flaggedSinceReset = @ \/ (r.gen.m_error /\ ~mf.gen.m_error)]
    /\ bout' = IF r.ret
               THEN [kind |-> "size", size |-> Mask_getLen(r.mask),
                     width |-> Mask_getWidth(r.mask),
                     at |-> IF mf.ended THEN 0 ELSE Len(mf.yielded) + 1]
               ELSE bout

FileNextSize ==
    /\ mf.pc = "run"
    /\ FileNextSize_called(MaskFileGenerator_call(mf.gen, EmptyMask))
    /\ UNCHANGED <<mvars, bf, yielded, bret, wk, jb, ex>>

\* SpecOverloads: one MaskGenerator of either class, driven by both overloads
\* of its next-mask call and by reset
NextOverloads ==
    \/ NextGenerators
    \/ FileNextSize

SpecOverloads == InitGenerators /\ [][NextOverloads]_vars

----------------------------------------------------------------------------
(* Properties of the bruteforce generator (SpecBrute)                      *)

\* number of positions of the mask m that use constraint k (0-based)
Occurrences(m, k) == Cardinality({p \in 1..Len(m) : m[p] = k})

\* a mask, as a sequence of constraint indices, satisfies the constraint list
Satisfies(m) ==
    /\ Len(m) = bf.m_target_len
    /\ \A k \in 1..Len(bf.m_constraints) :
          /\ bf.m_constraints[k].m_min <= Occurrences(m, k - 1)
          /\ Occurrences(m, k - 1) <= bf.m_constraints[k].m_max

\* every assignment of a constraint to each of the W positions
AllIndexMasks == [1..bf.m_target_len -> 0..(Len(bf.m_constraints) - 1)]

\* C8: when the generator reports exhaustion it has returned every mask that
\* satisfies the constraints exactly once, and it never returns a mask twice.
C8_EverySatisfyingMaskOnce ==
    bf.pc = "run" =>
      /\ \A p, q \in 1..Len(yielded) : p # q => yielded[p] # yielded[q]
      /\ bf.m_done =>
            \A m \in AllIndexMasks :
                Satisfies(m) => Cardinality({p \in 1..Len(yielded) : yielded[p] = m}) = 1

\* exhaustion reported after several distributions of several masks each
C8_Witness ==
    /\ bf.pc = "run" /\ bf.m_done /\ ~bret
    /\ bf.m_target_len = 3 /\ Len(bf.m_constraints) = 2
    /\ Len(yielded) = 7
    /\ \E p, q \in 1..Len(yielded) : Occurrences(yielded[p], 0) # Occurrences(yielded[q], 0)

Factorial(n) == IF n <= 1 THEN 1 ELSE IF n = 2 THEN 2 ELSE IF n = 3 THEN 6
                ELSE IF n = 4 THEN 24 ELSE IF n = 5 THEN 120 ELSE 720

\* the distributions n with min_k <= n_k <= max_k and sum W
ValidDistributions ==
    { n \in [1..Len(bf.m_constraints) -> 0..bf.m_target_len] :
        /\ SumSeq(n, Len(bf.m_constraints)) = bf.m_target_len
        /\ \A k \in 1..Len(bf.m_constraints) :
              bf.m_constraints[k].m_min <= n[k] /\ n[k] <= bf.m_constraints[k].m_max }

RECURSIVE ProductOfFactorials(_, _)
ProductOfFactorials(n, k) ==
    IF k = 0 THEN 1 ELSE Factorial(n[k]) * ProductOfFactorials(n, k - 1)

RECURSIVE SumOfMultinomials(_)
SumOfMultinomials(D) ==
    IF D = {} THEN 0
    ELSE LET n == CHOOSE x \in D : TRUE
         IN  Factorial(bf.m_target_len) \div ProductOfFactorials(n, Len(bf.m_constraints))
               + SumOfMultinomials(D \ {n})

\* C9: every returned mask has width W and uses each constraint's charset
\* between min_k and max_k times, and at exhaustion the number of masks returned
\* is the sum over the valid distributions n of W! / (n_1! ... n_K!).
C9_MasksWithinConstraints ==
    bf.pc = "run" =>
      /\ \A p \in 1..Len(yielded) : Satisfies(yielded[p])
      /\ bf.m_done => Len(yielded) = SumOfMultinomials(ValidDistributions)

\* what C9 states for the files whose lines all have MIN <= MAX after the clamp
C9_MinBelowMaxOnly ==
    (bf.pc = "run" /\ \A k \in 1..Len(bf.m_constraints) :
                          bf.m_constraints[k].m_min <= bf.m_constraints[k].m_max) =>
      /\ \A p \in 1..Len(yielded) : Satisfies(yielded[p])
      /\ bf.m_done => Len(yielded) = SumOfMultinomials(ValidDistributions)

\* the distribution of a mask
Distribution(m) == [k \in 1..Len(bf.m_constraints) |-> Occurrences(m, k - 1)]

\* odometer order of two distributions, n_0 varying fastest
DistBefore(a, b) ==
    \E k \in 1..Len(a) : a[k] < b[k] /\ \A j \in (k + 1)..Len(a) : a[j] = b[j]

\* lexicographic order of two masks of the same width, index 0 first
LexBefore(a, b) ==
    \E p \in 1..Len(a) : a[p] < b[p] /\ \A j \in 1..(p - 1) : a[j] = b[j]

\* C10: masks come grouped by distribution, distributions in odometer order with
\* n_0 fastest, and inside a distribution in lexicographic order of the indices.
C10_CanonicalOrder ==
    \A p, q \in 1..Len(yielded) :
        p < q =>
          \/ DistBefore(Distribution(yielded[p]), Distribution(yielded[q]))
          \/ /\ Distribution(yielded[p]) = Distribution(yielded[q])
             /\ LexBefore(yielded[p], yielded[q])

\* width 4, charset 1 allowed 0..4 times and charset 2 allowed 0..2 times:
\* 1111 1112 1121 1211 2111 1122 1212 1221 2112 2121 2211, then exhaustion
C10_Witness ==
    /\ bf.m_target_len = 4
    /\ Len(bf.m_constraints) = 2
    /\ bf.m_constraints[1].m_min = 0 /\ bf.m_constraints[1].m_max = 4
    /\ bf.m_constraints[2].m_min = 0 /\ bf.m_constraints[2].m_max = 2
    /\ bf.m_done
    /\ yielded = << <<0,0,0,0>>, <<0,0,0,1>>, <<0,0,1,0>>, <<0,1,0,0>>, <<1,0,0,0>>,
                    <<0,0,1,1>>, <<0,1,0,1>>, <<0,1,1,0>>, <<1,0,0,1>>, <<1,0,1,0>>,
                    <<1,1,0,0>> >>

----------------------------------------------------------------------------
(* Properties of the range driver (SpecWork, SpecJobs)                     *)

\* the word of index o of a mask in odometer order, rightmost position fastest
OdometerWord(m, o) ==
    [i \in 1..Len(m.m_charsets) |->
        LET set == m.m_charsets[i].m_set
        IN  set[((o \div SuffixProduct(m.m_charsets, i)) % Len(set)) + 1]]

\* the words of a sequence of masks in the order of their global index
RECURSIVE AllWords(_)
AllWords(masks) ==
    IF masks = <<>> THEN <<>>
    ELSE [o \in 1..Mask_getLen(Head(masks)) |-> OdometerWord(Head(masks), o - 1)]
           \o AllWords(Tail(masks))

\* C1: for any accepted range [start, end_excl) the emission pass outputs exactly
\* end_excl - start words and the k-th of them is the word of global index start + k.
C1_EmissionOutputsRange ==
    wk.pc = "done" =>
      LET start == wk.range[1]
          end_excl == wk.range[2]
          words == AllWords(wk.gen.masks)
      IN  /\ Len(wk.out) = end_excl - start
          /\ \A k \in 1..Len(wk.out) :
                start + k <= Len(words) /\ wk.out[k] = words[start + k]

\* what C1 states, for the accepted ranges that have start <= end_excl <= L
C1_WhenStartBelowEnd ==
    (wk.pc = "done" /\ wk.range[1] <= wk.range[2] /\ wk.range[2] <= wk.ml_len) =>
      LET start == wk.range[1]
          end_excl == wk.range[2]
          words == AllWords(wk.gen.masks)
      IN  /\ Len(wk.out) = end_excl - start
          /\ \A k \in 1..Len(wk.out) : wk.out[k] = words[start + k]

\* a range that begins inside the first mask and ends inside the third
C1_WhenStartBelowEnd_Witness ==
    /\ wk.pc = "done"
    /\ Len(wk.gen.masks) = 3
    /\ \A i \in 1..3 : Mask_getLen(wk.gen.masks[i]) >= 2
    /\ wk.range[1] = 1
    /\ wk.range[2] > Mask_getLen(wk.gen.masks[1]) + Mask_getLen(wk.gen.masks[2])
    /\ Len(wk.out) = wk.range[2] - 1

\* C2: the ranges of the jobs 1..N are consecutive, start at 0 and end at L, and
\* the outputs of the N job runs concatenated are the output of the whole run.
C2_JobsTileTheWholeRun ==
    /\ \A j \in 1..Len(jb.ranges) :
          /\ jb.ranges[j][1] = (IF j = 1 THEN 0 ELSE jb.ranges[j - 1][2])
          /\ jb.ranges[j][1] <= jb.ranges[j][2]
    /\ (jb.run = jb.N + 1 /\ wk.pc \notin {"count", "aborted"}) =>
          jb.ranges[jb.N][2] = wk.ml_len
    /\ (jb.run = jb.N + 1 /\ wk.pc = "done") => jb.written = wk.sink

\* three jobs over two masks, one job holding words of both masks
C2_Witness ==
    /\ jb.N = 3 /\ jb.run = 4 /\ wk.pc = "done"
    /\ Len(wk.gen.masks) = 2
    /\ Mask_getLen(wk.gen.masks[1]) = 4 /\ Mask_getLen(wk.gen.masks[2]) = 4
    /\ jb.ranges = << <<0, 3>>, <<3, 6>>, <<6, 8>> >>
    /\ Len(wk.sink) = 24

\* C3: with q = L div N and r = L mod N, job J starts at q*(J-1) + min(J-1, r)
\* and selects q + 1 words when J <= r and q words otherwise.
C3_JobRangeFormula ==
    (wk.pc \in {"size", "toolong", "skip", "emit", "done"} /\ wk.options.m_job_set) =>
      LET J == wk.options.m_job_number
          N == wk.options.m_job_total
          q == wk.ml_len \div N
          r == wk.ml_len % N
      IN  /\ wk.range[1] = q * (J - 1) + Min(J - 1, r)
          /\ wk.range[2] - wk.range[1] = (IF J <= r THEN q + 1 ELSE q)
          /\ wk.pc = "done" => Len(wk.out) = (IF J <= r THEN q + 1 ELSE q)

\* L = 10, N = 5: job 4 is the words 6 and 7
C3_Witness ==
    /\ wk.pc = "done" /\ wk.ml_len = 10
    /\ wk.options.m_job_set /\ wk.options.m_job_number = 4 /\ wk.options.m_job_total = 5
    /\ wk.range = <<6, 8>>
    /\ wk.out = << AllWords(wk.gen.masks)[7], AllWords(wk.gen.masks)[8] >>

----------------------------------------------------------------------------
(* Properties of expandCharset (SpecExpand, SpecExpandLive)                *)

\* the names referenced by a body, token by token: ?? and a last lone ? are literals
RECURSIVE References(_)
References(body) ==
    IF Len(body) < 2 THEN <<>>
    ELSE IF body[1] # "?" THEN References(Tail(body))
    ELSE IF body[2] = "?" THEN References(SubSeq(body, 3, Len(body)))
    ELSE <<body[2]>> \o References(SubSeq(body, 3, Len(body)))

\* the definition a reference to K stands for on a substitution path: the most
\* recent definition of K not yet used on the path
Definitions(charsets, K) == IF K \in DOMAIN charsets THEN charsets[K] ELSE <<>>

UsesOnPath(path, K) == Cardinality({i \in 1..Len(path) : path[i] = K})

UnusedDefinitions(charsets, K, path) ==
    SubSeq(Definitions(charsets, K), 1, Len(Definitions(charsets, K)) - UsesOnPath(path, K))

\* some reference reachable from body has no definition left on its path
RECURSIVE Unresolvable(_, _, _)
Unresolvable(charsets, body, path) ==
    \E i \in 1..Len(References(body)) :
        LET K == References(body)[i]
            unused == UnusedDefinitions(charsets, K, path)
        IN  \/ unused = <<>>
            \/ /\ ~unused[Len(unused)].final
               /\ Unresolvable(charsets, unused[Len(unused)].cset, Append(path, K))

\* the body with every reference replaced, ?? reduced to ?, a last lone ? kept
RECURSIVE Substituted(_, _, _)
Substituted(charsets, body, path) ==
    IF body = <<>> THEN <<>>
    ELSE IF body[1] # "?" THEN <<body[1]>> \o Substituted(charsets, Tail(body), path)
    ELSE IF Len(body) = 1 THEN <<"?">>
    ELSE IF body[2] = "?" THEN <<"?">> \o Substituted(charsets, SubSeq(body, 3, Len(body)), path)
    ELSE LET K == body[2]
             unused == UnusedDefinitions(charsets, K, path)
             d == unused[Len(unused)]
         IN  (IF d.final THEN d.cset ELSE Substituted(charsets, d.cset, Append(path, K)))
               \o Substituted(charsets, SubSeq(body, 3, Len(body)), path)

\* s without the elements that already occur earlier in s
FirstOccurrences(s) ==
    LET idx == {i \in 1..Len(s) : \A j \in 1..(i - 1) : s[j] # s[i]}
    IN  [k \in 1..Cardinality(idx) |->
            s[CHOOSE i \in idx : Cardinality({j \in idx : j <= i}) = k]]

Range(s) == {s[i] : i \in 1..Len(s)}

\* the definition the call in progress (or the last call) was made on, as it was before the call
CalledOn == ex.before[ex.charset_name][Len(ex.before[ex.charset_name])]

Stored == ex.charsets[ex.charset_name][Len(ex.charsets[ex.charset_name])]

Returned == ex.pc \in {"done", "failed"}

\* C11: a reference ?K' met while the most recent definition of K is expanded is replaced
\* by the most recent definition of K' not yet used on the substitution path (K itself
\* counts as used once): when every reference can be resolved that way the expansion
\* succeeds and the stored body holds exactly the characters of that substitution.
C11_ReferenceTakesUnusedDefinition ==
    (Returned /\ ~CalledOn.final /\ ~Unresolvable(ex.before, CalledOn.cset, <<ex.charset_name>>)) =>
        /\ ex.ret
        /\ Range(Stored.cset) = Range(Substituted(ex.before, CalledOn.cset, <<ex.charset_name>>))

\* definitions '123' then '?1456' for the name 1 expand to '123456'
C11_Witness ==
    /\ ex.pc = "done" /\ ex.charset_name = "1" /\ ex.ncalls = 1
    /\ ex.before["1"] = << [cset |-> <<"1", "2", "3">>, final |-> FALSE],
                           [cset |-> <<"?", "1", "4", "5", "6">>, final |-> FALSE] >>
    /\ Stored = [cset |-> <<"1", "2", "3", "4", "5", "6">>, final |-> TRUE]

\* a self-reference inside the definition a self-reference resolved to takes the next earlier one
C11_ChainWitness ==
    /\ ex.pc = "done" /\ ex.charset_name = "1" /\ ex.ncalls = 1
    /\ ex.before["1"] = << [cset |-> <<"a", "b">>, final |-> TRUE],
                           [cset |-> <<"?", "1", "4", "5", "6">>, final |-> FALSE],
                           [cset |-> <<"?", "1", "4", "5", "6">>, final |-> FALSE] >>
    /\ Stored.cset = <<"a", "b", "4", "5", "6">>

\* no substitution path holds a name more often than the name has definitions
PathsWithinDefinitions ==
    ex.pc = "loop" =>
        \A i \in 1..Len(ex.queue) : \A K \in Range(ex.queue[i].keys_history) :
            UsesOnPath(ex.queue[i].keys_history, K) <= Len(Definitions(ex.charsets, K))

\* C12: expansion terminates for every registry, cyclic references included: a call
\* that has entered its loop returns, and substitution is bounded because no path uses
\* a name more often than it has definitions.
C12_ExpansionTerminates ==
    /\ [](PathsWithinDefinitions)
    /\ ((ex.pc = "loop") ~> Returned)

\* 1 = '?2a' and 2 = '?1456' reference each other: the call returns false
C12_Witness ==
    /\ ex.pc = "failed" /\ ex.charset_name = "1" /\ ex.ncalls = 1
    /\ ex.before["1"] = << [cset |-> <<"?", "2", "a">>, final |-> FALSE] >>
    /\ ex.before["2"] = << [cset |-> <<"?", "1", "4", "5", "6">>, final |-> FALSE] >>

\* C13: expansion returns false whenever the body reachable from the name references a
\* name without definition, or a name more often on one path than it has definitions.
C13_FailsOnUnresolvableReference ==
    (Returned /\ ~CalledOn.final /\ Unresolvable(ex.before, CalledOn.cset, <<ex.charset_name>>)) =>
        /\ ex.pc = "failed"
        /\ ~ex.ret

\* a name with a single definition that references itself
C13_Witness ==
    /\ ex.pc = "failed" /\ ex.charset_name = "2" /\ ex.ncalls = 1
    /\ ex.before["2"] = << [cset |-> <<"?", "2", "a">>, final |-> FALSE] >>

\* a reference to the name 3, which is never defined
C13_UndefinedWitness ==
    /\ ex.pc = "failed" /\ ex.charset_name = "1" /\ ex.ncalls = 1
    /\ ex.before["1"] = << [cset |-> <<"?", "3">>, final |-> FALSE] >>

\* C14: when expansion of K succeeds the stored body of K's most recent definition is the
\* fully substituted sequence with every later duplicate removed, in first-occurrence
\* order, and the definition is marked final.
C14_StoredBodyIsDeduplicatedSubstitution ==
    (ex.pc = "done" /\ ~CalledOn.final) =>
        /\ Stored.final
        /\ Stored.cset = FirstOccurrences(Substituted(ex.before, CalledOn.cset, <<ex.charset_name>>))

\* 'a??a?' is stored as 'a?': ?? gives one ?, the last lone ? is kept, duplicates go
C14_Witness ==
    /\ ex.pc = "done" /\ ex.charset_name = "1" /\ ex.ncalls = 1
    /\ CalledOn = [cset |-> <<"a", "?", "?", "a", "?">>, final |-> FALSE]
    /\ Stored = [cset |-> <<"a", "?">>, final |-> TRUE]

\* C15: expanding a name whose most recent definition is final succeeds and leaves the
\* registry unchanged; a second expansion of the same name changes nothing.
C15_FinalIsLeftUnchanged ==
    /\ (Returned /\ CalledOn.final) => (ex.pc = "done" /\ ex.ret /\ ex.charsets = ex.before)
    /\ (Returned /\ ex.prev # <<>> /\ ex.prev[1].charset_name = ex.charset_name) =>
          ex.charsets = ex.before

\* the second of two expansions of a definition the first one has expanded
C15_Witness ==
    /\ ex.pc = "done" /\ ex.ncalls = 2
    /\ ex.prev = <<[charset_name |-> ex.charset_name, ret |-> TRUE]>>
    /\ CalledOn = [cset |-> <<"1", "2", "3", "4", "5", "6">>, final |-> TRUE]
    /\ ex.charsets = ex.before

----------------------------------------------------------------------------
(* Properties of mask parsing (SpecFile, SpecWorkFile)                     *)

\* the lines of a content: each ends at a line feed, which is dropped with the
\* carriage return before it
RECURSIVE LinesOf(_)
LinesOf(content) ==
    IF content = <<>> THEN <<>>
    ELSE LET feeds == {i \in 1..Len(content) : content[i] = "LF"}
             n == IF feeds = {} THEN Len(content) + 1
                  ELSE CHOOSE i \in feeds : \A j \in feeds : i <= j
             text == IF n <= Len(content) /\ n >= 2 /\ content[n - 1] = "CR"
                     THEN SubSeq(content, 1, n - 2) ELSE SubSeq(content, 1, n - 1)
         IN  <<text>> \o LinesOf(SubSeq(content, n + 1, Len(content)))

\* the fields of a line: separated by commas, a backslash makes the next
\* character an ordinary one
RECURSIVE LineFields(_)
LineFields(line) ==
    IF line = <<>> THEN << <<>> >>
    ELSE IF line[1] = "\\" /\ Len(line) >= 2
    THEN LET rest == LineFields(SubSeq(line, 3, Len(line)))
         IN  <<(<<line[2]>> \o rest[1])>> \o Tail(rest)
    ELSE IF line[1] = ","
    THEN << <<>> >> \o LineFields(Tail(line))
    ELSE LET rest == LineFields(Tail(line))
         IN  <<(<<line[1]>> \o rest[1])>> \o Tail(rest)

IsMaskLine(line) == line # <<>> /\ line[1] # "#"

\* the mask body of a line and the names defined while it is parsed
BodyOfLine(line, charsets) ==
    LET fields == LineFields(line)
    IN  [body |-> fields[Len(fields)],
         names |-> {K \in DOMAIN charsets : charsets[K] # <<>>}
                   \cup {<<"1", "2", "3", "4", "5", "6", "7", "8", "9">>[n] :
                            n \in 1..(Len(fields) - 1)}]

\* the mask bodies a generator is made to parse
MaskBodies(gen) ==
    IF gen.m_command_line_mask
    THEN {[body |-> gen.m_content,
           names |-> {K \in DOMAIN gen.m_charsets : gen.m_charsets[K] # <<>>}]}
    ELSE {BodyOfLine(LinesOf(gen.m_content)[i], gen.m_charsets) :
            i \in {j \in 1..Len(LinesOf(gen.m_content)) : IsMaskLine(LinesOf(gen.m_content)[j])}}

HasUndefinedReference(b) == \E K \in Range(References(b.body)) : K \notin b.names

WorkOverFile == wk.pc # "idle" /\ "m_content" \in DOMAIN wk.gen

\* C16: if a mask body (an inline mask or the mask token of a mask-file line)
\* holds a reference ?K to a name with no definition, at any position, the
\* generator ends with its error flag set and the run fails before any word
\* is output.
C16_UndefinedReferenceFailsRun ==
    (/\ WorkOverFile
     /\ wk.pc # "count"
     /\ \E b \in MaskBodies(wk.gen) : HasUndefinedReference(b))
    => /\ wk.pc = "generror"
       /\ ~MaskFileGenerator_good(wk.gen)
       /\ wk.out = <<>>

\* the run on the inline mask a?Z: the word "a" is output and the run ends with 0
C16_PartialMaskEmitted ==
    /\ WorkOverFile
    /\ wk.pc = "done"
    /\ wk.ret = 0
    /\ wk.gen.m_command_line_mask
    /\ wk.gen.m_content = <<"a", "?", "Z">>
    /\ MaskFileGenerator_good(wk.gen)
    /\ wk.out = << <<"a">> >>

\* the tokens of a mask body from left to right: a reference ?K, or a literal
\* (any other codepoint, ?? for ?, and a ? that ends the body)
RECURSIVE BodyTokens(_)
BodyTokens(body) ==
    IF body = <<>> THEN <<>>
    ELSE IF body[1] # "?" THEN <<[lit |-> body[1]]>> \o BodyTokens(Tail(body))
    ELSE IF Len(body) = 1 THEN <<[lit |-> "?"]>>
    ELSE IF body[2] = "?" THEN <<[lit |-> "?"]>> \o BodyTokens(SubSeq(body, 3, Len(body)))
    ELSE <<[ref |-> body[2]]>> \o BodyTokens(SubSeq(body, 3, Len(body)))

\* the registry while a line is parsed: the fields before the mask body define 1, 2, ...
RECURSIVE WithLineDefinitions(_, _, _)
WithLineDefinitions(charsets, fields, n) ==
    IF n >= Len(fields) THEN charsets
    ELSE LET K == <<"1", "2", "3", "4", "5", "6", "7", "8", "9">>[n]
         IN  WithLineDefinitions(
                 [k \in DOMAIN charsets \cup {K} |->
                     IF k = K THEN Append(Definitions(charsets, K), [cset |-> fields[n], final |-> FALSE])
                     ELSE charsets[k]],
                 fields, n + 1)

\* the registry while the body the generator has just read is parsed, and that body
ParsedLine(gen) == LinesOf(gen.m_content)[gen.m_line_number]

ParsedBody(gen) ==
    IF gen.m_command_line_mask THEN gen.m_content
    ELSE LineFields(ParsedLine(gen))[Len(LineFields(ParsedLine(gen)))]

ParsedRegistry(gen, charsets) ==
    IF gen.m_command_line_mask THEN charsets
    ELSE WithLineDefinitions(charsets, LineFields(ParsedLine(gen)), 1)

\* the charset the most recent definition of K stands for
MostRecent(charsets, K) ==
    LET d == Definitions(charsets, K)[Len(Definitions(charsets, K))]
    IN  IF d.final THEN d.cset
        ELSE FirstOccurrences(Substituted(charsets, d.cset, <<K>>))

Resolvable(charsets, K) ==
    /\ Definitions(charsets, K) # <<>>
    /\ LET d == Definitions(charsets, K)[Len(Definitions(charsets, K))]
       IN  d.final \/ ~Unresolvable(charsets, d.cset, <<K>>)

\* the charsets of the positions of the Mask a body stands for
ExpectedSets(charsets, body) ==
    [i \in 1..Len(BodyTokens(body)) |->
        LET t == BodyTokens(body)[i]
        IN  IF "lit" \in DOMAIN t THEN <<t.lit>> ELSE MostRecent(charsets, t.ref)]

RECURSIVE SizeProduct(_)
SizeProduct(sets) ==
    IF sets = <<>> THEN 1 ELSE Len(Head(sets)) * SizeProduct(Tail(sets))

\* the generator has just returned the mask of a body
ReturnedBody ==
    /\ mf.pc = "run"
    /\ mf.ret = "mask"
    /\ mf.gen.m_command_line_mask \/ IsMaskLine(ParsedLine(mf.gen))

MaskSets(m) == [i \in 1..Len(m.m_charsets) |-> m.m_charsets[i].m_set]

\* C17: the Mask parsed from a body has one position per token, left to right:
\* a one-element charset for a codepoint outside a ? escape, for ?? and for a ?
\* that ends the body, the most recent definition of K for ?K; its width is the
\* number of tokens and its length the product of the sizes of the charsets.
C17_MaskFollowsTokens ==
    (/\ ReturnedBody
     /\ \A K \in Range(References(ParsedBody(mf.gen))) :
           Resolvable(ParsedRegistry(mf.gen, mf.fresh.m_charsets), K))
    => LET sets == ExpectedSets(ParsedRegistry(mf.gen, mf.fresh.m_charsets), ParsedBody(mf.gen))
       IN  /\ MaskSets(mf.mask) = sets
           /\ Mask_getWidth(mf.mask) = Len(BodyTokens(ParsedBody(mf.gen)))
           /\ Mask_getLen(mf.mask) = SizeProduct(sets)

\* the inline mask ?1c with 1 defined as c and then as ab: [ab][c], 2 words
C17_Witness ==
    /\ ReturnedBody
    /\ mf.gen.m_command_line_mask
    /\ mf.gen.m_content = <<"?", "1", "c">>
    /\ Len(Definitions(mf.gen.m_charsets, "1")) = 2
    /\ MaskSets(mf.mask) = << <<"a", "b">>, <<"c">> >>
    /\ Mask_getLen(mf.mask) = 2

\* the line ??\,? of a file: the positions ? , ?
C17_EscapesWitness ==
    /\ ReturnedBody
    /\ ~mf.gen.m_command_line_mask
    /\ ParsedLine(mf.gen) = <<"?", "?", "\\", ",", "?">>
    /\ MaskSets(mf.mask) = << <<"?">>, <<",">>, <<"?">> >>

\* what a generator over the one line just read, with the registry the generator
\* was constructed with, returns at its first call
AloneLine(gen, charsets) ==
    MaskFileGenerator_call(MaskFileGenerator(ParsedLine(gen), FALSE, charsets), EmptyMask)

\* the names the line just read defines
LineNames(gen) ==
    {<<"1", "2", "3", "4", "5", "6", "7", "8", "9">>[n] :
        n \in 1..(Len(LineFields(ParsedLine(gen))) - 1)}

\* C18: the charsets defined at the start of a mask-file line exist only while
\* that line is parsed: a reference to such a name takes the definition of the
\* line (which may itself refer to the registry's definition of the name), the
\* registry of the generator is never changed, and every line gives the mask it
\* gives when it is the only line of the file.
C18_LineCharsetsAreLocal ==
    (mf.pc = "run" /\ ~mf.gen.m_command_line_mask) =>
        /\ mf.gen.m_charsets = mf.fresh.m_charsets
        /\ mf.ret = "mask" =>
              /\ AloneLine(mf.gen, mf.fresh.m_charsets).ret
              /\ mf.mask = AloneLine(mf.gen, mf.fresh.m_charsets).mask
              /\ LET reg == WithLineDefinitions(mf.fresh.m_charsets, LineFields(ParsedLine(mf.gen)), 1)
                     tokens == BodyTokens(ParsedBody(mf.gen))
                 IN  \A i \in 1..Len(tokens) :
                        ("ref" \in DOMAIN tokens[i] /\ tokens[i].ref \in LineNames(mf.gen)
                            /\ i <= Len(mf.mask.m_charsets))
                        => LET K == tokens[i].ref
                               field == LineFields(ParsedLine(mf.gen))[
                                           CHOOSE n \in 1..9 :
                                              <<"1", "2", "3", "4", "5", "6", "7", "8", "9">>[n] = K]
                           IN  mf.mask.m_charsets[i].m_set
                                  = FirstOccurrences(Substituted(reg, field, <<K>>))

\* with 1 defined as c and then as ab, the line ?1c,?1 gives the mask [abc] and
\* the next line ?1c the mask [ab][c]
C18_Witness ==
    /\ mf.pc = "run"
    /\ ~mf.gen.m_command_line_mask
    /\ mf.ret = "mask"
    /\ mf.resetAt = NoReset
    /\ Len(mf.yielded) = 2
    /\ LinesOf(mf.gen.m_content) = << <<"?", "1", "c", ",", "?", "1">>, <<"?", "1", "c">> >>
    /\ MaskSets(mf.yielded[1]) = << <<"a", "b", "c">> >>
    /\ MaskSets(mf.yielded[2]) = << <<"a", "b">>, <<"c">> >>

\* the lines of a file that are neither empty nor comments, in order
RECURSIVE MaskLines(_)
MaskLines(lines) ==
    IF lines = <<>> THEN <<>>
    ELSE (IF IsMaskLine(Head(lines)) THEN <<Head(lines)>> ELSE <<>>) \o MaskLines(Tail(lines))

\* what the generator returns for a file made of this line only
LineAlone(line, charsets) ==
    MaskFileGenerator_call(MaskFileGenerator(line, FALSE, charsets), EmptyMask)

\* the masks of the remaining lines of the file work() runs on
RemainingMasks ==
    LET lines == MaskLines(LinesOf(wk.gen.m_content))
    IN  [i \in 1..Len(lines) |-> LineAlone(lines[i], wk.gen.m_charsets).mask]

RemainingAllGiveMasks ==
    LET lines == MaskLines(LinesOf(wk.gen.m_content))
    IN  \A i \in 1..Len(lines) : LineAlone(lines[i], wk.gen.m_charsets).ret

RECURSIVE SumOfLengths(_)
SumOfLengths(masks) ==
    IF masks = <<>> THEN 0 ELSE Mask_getLen(Head(masks)) + SumOfLengths(Tail(masks))

WholeRun(o) == ~o.m_job_set /\ ~o.m_start_word_set /\ ~o.m_end_word_set

\* C19: the empty lines and the lines starting with # of a mask file give no
\* word and do not end the sequence: L is the sum of the lengths of the masks
\* of the other lines, and the whole run outputs the words of these masks, in
\* the order of the lines.
C19_CommentsAndEmptyLinesAreSkipped ==
    (/\ WorkOverFile
     /\ ~wk.gen.m_command_line_mask
     /\ wk.pc # "count"
     /\ RemainingAllGiveMasks)
    => /\ wk.pc # "generror"
       /\ wk.ml_len = SumOfLengths(RemainingMasks)
       /\ (wk.pc = "done" /\ WholeRun(wk.options)) => wk.out = AllWords(RemainingMasks)

\* the file "#c", "", "?1c" with 1 defined as ab: L = 2, the words ac and bc
C19_Witness ==
    /\ WorkOverFile
    /\ ~wk.gen.m_command_line_mask
    /\ wk.pc = "done"
    /\ WholeRun(wk.options)
    /\ LinesOf(wk.gen.m_content) = << <<"#", "c">>, <<>>, <<"?", "1", "c">> >>
    /\ wk.ml_len = 2
    /\ wk.out = << <<"a", "c">>, <<"b", "c">> >>

----------------------------------------------------------------------------
(* Properties of reset() (SpecGenerators)                                  *)

\* the masks a MaskFileGenerator returns up to the first call that returns false
RECURSIVE FileSequence(_, _)
FileSequence(gen, m) ==
    LET r == MaskFileGenerator_call(gen, m)
    IN  IF r.ret THEN <<r.mask>> \o FileSequence(r.gen, r.mask) ELSE <<>>

\* the masks a first stage generator returns up to exhaustion
RECURSIVE BruteSequence(_)
BruteSequence(g) ==
    LET r == FirstStageGen_call(g)
    IN  IF r.ret THEN <<r.g.mask>> \o BruteSequence(r.g) ELSE <<>>

IsPrefix(s, t) == Len(s) <= Len(t) /\ s = SubSeq(t, 1, Len(s))

\* C20: after reset(), called before the first mask, in the middle of the
\* sequence or after its end, the masks returned by the next-mask calls are
\* those of a newly constructed generator, in the same order, up to the end of
\* the sequence; for both generators.
C20_ResetRestartsTheSequence ==
    /\ (mf.pc = "run" /\ mf.resetAt # NoReset) =>
          LET fresh == FileSequence(mf.fresh, EmptyMask)
          IN  /\ IsPrefix(mf.yielded, fresh)
              /\ mf.ended => mf.yielded = fresh
    /\ "m_gen" \in DOMAIN bf =>
          LET fresh == BruteSequence(FirstStageGen(bf.m_constraints, bf.m_target_len))
          IN  /\ IsPrefix(yielded, fresh)
              /\ bf.m_done => yielded = fresh

\* a file generator reset after the first of its masks, then run to its end:
\* all its masks were returned again
C20_Witness ==
    /\ mf.pc = "run"
    /\ mf.resetAt = [n |-> 1, ended |-> FALSE]
    /\ mf.ended
    /\ mf.good
    /\ Len(mf.yielded) >= 2
    /\ mf.yielded = FileSequence(mf.fresh, EmptyMask)

\* a file generator reset after its end
C20_AfterEndWitness ==
    /\ mf.pc = "run"
    /\ mf.resetAt.ended
    /\ mf.ended
    /\ Len(mf.yielded) >= 1

\* a bruteforce generator just reset in the middle of its sequence
C20_BruteWitness ==
    /\ "m_gen" \in DOMAIN bf
    /\ bf.pc = "run"
    /\ ~bf.m_done
    /\ yielded = <<>>
    /\ bout.kind = "mask"
    /\ Len(BruteSequence(FirstStageGen(bf.m_constraints, bf.m_target_len))) >= 2

----------------------------------------------------------------------------
(* Properties of the error flag and of exhaustion (SpecFile, SpecBrute)    *)

\* C21 as stated: once a next-mask call has set the error flag of a mask-file
\* generator, good() returns false after every later sequence of next-mask
\* calls and reset().
C21_ErrorFlagIsSticky ==
    (mf.pc = "run" /\ mf.flagged) => ~MaskFileGenerator_good(mf.gen)

\* C21 amended: once a next-mask call has set the error flag, good() returns
\* false after every later sequence of next-mask calls, until reset() is
\* called; reset() clears the flag.
C21_ErrorFlagIsStickyUntilReset ==
    /\ (mf.pc = "run" /\ mf.flaggedSinceReset) => ~MaskFileGenerator_good(mf.gen)
    /\ (mf.pc = "run" /\ mf.ret = "none" /\ mf.resetAt # NoReset)
          => MaskFileGenerator_good(mf.gen)

\* the file ?Zb, ?1c with 1 defined: the first call sets the flag, the second
\* returns the mask of ?1c and good() is still false
C21_Witness ==
    /\ mf.pc = "run"
    /\ mf.flaggedSinceReset
    /\ mf.ret = "mask"
    /\ mf.gen.m_line_number = 2
    /\ ~mf.good
    /\ mf.gen.m_content = <<"?", "Z", "b", "LF", "?", "1", "c", "LF">>

\* the flag was set and reset() has been called: good() returns true
C21_ClearedByReset ==
    /\ mf.pc = "run"
    /\ mf.flagged
    /\ mf.ret = "none"
    /\ mf.good

\* C22: an argument that names no file gives exactly one mask, the whole
\* argument parsed as a mask body, and then the end of the sequence.
C22_InlineArgumentIsOneMask ==
    (/\ mf.pc = "run"
     /\ mf.gen.m_command_line_mask
     /\ mf.ended
     /\ \A K \in Range(References(mf.gen.m_content)) : Resolvable(mf.gen.m_charsets, K))
    => /\ Len(mf.yielded) = 1
       /\ MaskSets(mf.yielded[1]) = ExpectedSets(mf.gen.m_charsets, mf.gen.m_content)

\* the same for the arguments that are not empty and hold no line feed
C22_WithoutLineFeed ==
    (/\ mf.pc = "run"
     /\ mf.gen.m_command_line_mask
     /\ mf.ended
     /\ mf.gen.m_content # <<>>
     /\ "LF" \notin Range(mf.gen.m_content)
     /\ \A K \in Range(References(mf.gen.m_content)) : Resolvable(mf.gen.m_charsets, K))
    => /\ Len(mf.yielded) = 1
       /\ MaskSets(mf.yielded[1]) = ExpectedSets(mf.gen.m_charsets, mf.gen.m_content)

\* the argument a, line feed, b: the mask of the whole argument is returned twice
C22_MaskReturnedTwice ==
    /\ mf.pc = "run"
    /\ mf.gen.m_command_line_mask
    /\ mf.gen.m_content = <<"a", "LF", "b">>
    /\ mf.ended
    /\ mf.good
    /\ Len(mf.yielded) = 2
    /\ MaskSets(mf.yielded[1]) = << <<"a">>, <<"LF">>, <<"b">> >>
    /\ mf.yielded[2] = mf.yielded[1]

----------------------------------------------------------------------------
(* Properties of the word counts and of the end of a run                   *)
(* (SpecWorkOverflow)                                                      *)

\* the exact lengths, as unbounded integers, of the masks of the file work() runs on
ExactLengths ==
    LET lines == MaskLines(LinesOf(wk.gen.m_content))
    IN  [i \in 1..Len(lines) |->
            SizeProduct(ExpectedSets(wk.gen.m_charsets, lines[i]))]

RECURSIVE Sum(_)
Sum(s) == IF s = <<>> THEN 0 ELSE Head(s) + Sum(Tail(s))

AllFit == (\A i \in 1..Len(ExactLengths) : ExactLengths[i] < U64) /\ Sum(ExactLengths) < U64

\* C23: word counts never wrap silently.  When every product and the sum fit
\* in a uint64_t, L is the exact sum and the length of a Mask the exact product
\* of its charset sizes; when one does not fit the run never gets past the
\* counting pass (it is aborted there) and no word is output.
C23_CountsAreExactOrAbort ==
    WorkOverFile =>
        /\ (wk.pc \notin {"count", "aborted"}) =>
              /\ AllFit
              /\ wk.ml_len = Sum(ExactLengths)
        /\ ~AllFit => wk.out = <<>> /\ wk.sink = <<>> /\ wk.buffer = <<>> /\ wk.fdout = "closed"
        /\ Mask_getLen(wk.current_mask) =
              (IF wk.current_mask.m_charsets = <<>> THEN 0
               ELSE SizeProduct(MaskSets(wk.current_mask)))

\* two lines of U64 / 2 words each: the sum does not fit, the run is aborted
C23_Witness ==
    /\ WorkOverFile
    /\ wk.pc = "aborted"
    /\ Len(ExactLengths) = 2
    /\ \A i \in 1..2 : ExactLengths[i] = U64 \div 2
    /\ wk.ml_len = U64 \div 2
    /\ wk.out = <<>>

\* a line whose product does not fit: the run is aborted by push_charset_right
C23_ProductWitness ==
    /\ WorkOverFile
    /\ wk.pc = "aborted"
    /\ Len(ExactLengths) = 1
    /\ ExactLengths[1] >= U64
    /\ wk.ml_len = 0

\* a run that fits: L = U64 / 2 + 8, and the words 0..MaxIndex of -e are output
C23_FitsWitness ==
    /\ WorkOverFile
    /\ wk.pc = "done"
    /\ wk.ml_len = U64 \div 2 + 8
    /\ wk.options.m_end_word = MaxIndex /\ ~wk.options.m_start_word_set
    /\ Len(wk.out) = MaxIndex + 1

----------------------------------------------------------------------------
(* Properties of the output file (SpecWorkFile)                            *)

\* the output file has been opened: it is open, or bytes were written to it
OutputOpened == wk.fdout = "open" \/ wk.sink # <<>>

\* the parsing of a mask body met an undefined reference (readMask returned false)
ParsingFailed == \E b \in MaskBodies(wk.gen) : HasUndefinedReference(b)

\* work() has returned 1 or aborted
RunFailed == wk.pc \in {"generror", "error", "toolong", "aborted"}

\* C24: the output file is opened only after the mask parsing, the counting
\* pass and the range resolution have all succeeded; if one of these steps
\* fails no byte is written and the output file is never opened.
C24_OutputOpenedAfterEveryStep ==
    WorkOverFile =>
        /\ OutputOpened => (wk.pc \in {"skip", "load", "emit", "done"} /\ ~ParsingFailed)
        /\ (ParsingFailed \/ RunFailed) => (~OutputOpened /\ wk.out = <<>>)

\* the same for the failures work() notices: a failed run never opened the output
C24_FailedRunNeverOpens ==
    WorkOverFile =>
        /\ OutputOpened => wk.pc \in {"skip", "load", "emit", "done"}
        /\ RunFailed => (~OutputOpened /\ wk.out = <<>>)

\* the output is open on a run over a?Z, whose parsing failed
C24_OpenedAfterFailedParsing ==
    /\ WorkOverFile
    /\ wk.fdout = "open"
    /\ wk.gen.m_content = <<"a", "?", "Z">>
    /\ ParsingFailed

\* a run that fails in the range resolution, the output never opened
C24_FailedWitness ==
    /\ WorkOverFile
    /\ wk.pc = "error"
    /\ wk.ml_len > 0
    /\ ~OutputOpened

----------------------------------------------------------------------------
(* Properties of the end of a run (SpecWorkOverflow)                       *)

\* work() has returned: wk.ret is the exit code of the run
WorkReturned == wk.pc \in {"generror", "error", "size", "toolong", "done"}

\* the run is over: work() has returned or the process was killed by abort()
RunEnded == WorkReturned \/ wk.pc = "aborted"

\* C25: every run ends with exit code 0 or 1, and a run ended by a 64-bit
\* overflow of a mask length or of the total ends with exit code 1.
C25_ExitCodeIsZeroOrOne ==
    WorkOverFile =>
        /\ RunEnded => wk.ret \in {0, 1}
        /\ wk.pc = "aborted" => wk.ret = 1

\* the same for the runs that work() ends by a return: 0 after --size or the
\* last word, 1 after an error
C25_ReturnedZeroOrOne ==
    WorkOverFile =>
        (WorkReturned => wk.ret = (IF wk.pc \in {"size", "done"} THEN 0 ELSE 1))

\* a run ended by abort() on the overflow of the total: no exit code
C25_AbortedWithoutExitCode ==
    /\ WorkOverFile
    /\ wk.pc = "aborted"
    /\ wk.ret = -1
    /\ AllFit = FALSE
    /\ \A i \in 1..Len(ExactLengths) : ExactLengths[i] < U64

----------------------------------------------------------------------------
(* Properties of the bruteforce generator after its last mask (SpecBrute)  *)

\* a next-mask call on a generator that has returned false returns false,
\* yields nothing and leaves the generator exhausted; reset() is the only step
\* that leaves bf.m_done false
AfterExhaustion ==
    (bf.pc = "run" /\ bf.m_done /\ bf'.m_done) =>
        (bret' = FALSE /\ bout' = bout /\ yielded' = yielded /\ bf' = bf)

\* C27: good() of the bruteforce generator is true in every reachable state,
\* and once a next-mask call of either overload has returned false every later
\* next-mask call returns false and yields no mask until reset() is called.
C27_ExhaustedUntilReset ==
    /\ [](bf.pc = "run" => BruteforceGenerator_good(bf))
    /\ [][AfterExhaustion]_vars

\* an exhausted generator that had given three masks, the last call returned false
C27_Witness ==
    /\ bf.pc = "run"
    /\ bf.m_done
    /\ BruteforceGenerator_good(bf)
    /\ Len(yielded) = 3
    /\ bret = FALSE

----------------------------------------------------------------------------
(* Properties of the cursors of Charset objects (SpecShare)                *)

\* the cursor of position k of mask i, and of the constraint c
CursorOf(h, i, k) == h.objs[h.masks[i][k]].m_p
ConstraintCursor(h, c) == h.objs[h.constraints[c]].m_p

\* a call that moves the cursor of position last.k of mask last.i leaves every
\* other cursor and every set as it was
OnlyOneCursorMoves ==
    (heap.pc = "run" /\ heap' # heap /\ heap'.last.op \in {"setPosition", "getNext"}) =>
        /\ \A i \in 1..2 : \A k \in 1..Len(heap.masks[i]) :
              (<<i, k>> # <<heap'.last.i, heap'.last.k>>) => CursorOf(heap', i, k) = CursorOf(heap, i, k)
        /\ \A c \in 1..Len(heap.constraints) : ConstraintCursor(heap', c) = ConstraintCursor(heap, c)
        /\ heap'.sets = heap.sets
        /\ heap'.masks = heap.masks

\* C29: moving the cursor of one position of a Mask (setPosition or getNext)
\* never changes the cursor of another position of that Mask nor of another
\* live Mask, also when the positions were built from the same named charset
\* or are copies of the same Charset object.
C29_CursorsAreIndependent == [][OnlyOneCursorMoves]_vars

\* two masks that each hold a copy of the constraint x y z, and the two
\* positions of mask 1 are copies of the same object; the cursors differ
C29_Witness ==
    /\ heap.pc = "run"
    /\ Len(heap.masks[1]) = 2 /\ Len(heap.masks[2]) = 1
    /\ \A k \in 1..2 : heap.objs[heap.masks[1][k]].m_set = heap.objs[heap.constraints[2]].m_set
    /\ heap.objs[heap.masks[2][1]].m_set = heap.objs[heap.constraints[2]].m_set
    /\ heap.last.op = "getNext"
    /\ CursorOf(heap, 1, 1) = 2 /\ CursorOf(heap, 1, 2) = 1 /\ CursorOf(heap, 2, 1) = 0

----------------------------------------------------------------------------
(* Properties of the UTF-8 conversions (SpecUtf8)                          *)

\* Unicode scalar values
ValidScalar(cp) == cp >= 0 /\ cp <= \h10FFFF /\ ~(cp >= \hD800 /\ cp <= \hDFFF)

AllValid(cps) == \A i \in 1..Len(cps) : ValidScalar(cps[i])

\* C30: encoding a sequence of valid scalar values and decoding the bytes
\* reports OK, consumes all the bytes and returns the sequence; re-encoding
\* the decoding of a byte string the decoder accepts returns that byte string.
C30_Utf8RoundTrips ==
    /\ (utf.pc = "run" /\ utf.from = "cps" /\ AllValid(utf.cps) /\ Len(utf.calls) >= 1) =>
          /\ utf.calls[1].ret = "OK"
          /\ utf.calls[1].consumed = Len(utf.cps)
          /\ utf.calls[1].written = Len(utf.bytes)
    /\ (utf.pc = "run" /\ utf.from = "cps" /\ AllValid(utf.cps) /\ Len(utf.calls) = 2) =>
          /\ utf.calls[2].ret = "OK"
          /\ utf.calls[2].consumed = Len(utf.bytes)
          /\ utf.back = utf.cps
    /\ (utf.pc = "run" /\ utf.from = "bytes" /\ Len(utf.calls) = 2) =>
          /\ utf.calls[2].ret = "OK"
          /\ utf.back = utf.bytes

\* U+7FF and U+10000 encoded into 2 + 4 bytes and decoded again
C30_Witness ==
    /\ utf.pc = "run"
    /\ utf.from = "cps"
    /\ utf.cps = <<\h7FF, \h10000>>
    /\ utf.bytes = <<\hDF, \hBF, \hF0, \h90, \h80, \h80>>
    /\ Len(utf.calls) = 2
    /\ utf.back = utf.cps

\* the bytes of U+D7FF followed by A, decoded and encoded again
C30_BytesWitness ==
    /\ utf.pc = "run"
    /\ utf.from = "bytes"
    /\ utf.bytes = <<\hED, \h9F, \hBF, \h41>>
    /\ utf.cps = <<\hD7FF, \h41>>
    /\ Len(utf.calls) = 2
    /\ utf.back = utf.bytes

\* an overlong encoding of A is refused
C30_OverlongRefused ==
    /\ utf.pc = "run"
    /\ utf.from = "bytes"
    /\ utf.bytes = <<\hC1, \h80>>
    /\ Len(utf.calls) = 1
    /\ utf.calls[1].ret = "E_INVALID"

----------------------------------------------------------------------------
(* C26: a charset body that holds the sequence ?,                          *)

\* the run is in unicode mode and its only charset option is -1 '?l?,'
LowerCommaRun ==
    /\ cmd.pc # "idle"
    /\ cmd.unicode
    /\ cmd.given = <<[first |-> 1, second |-> <<63, 108, 63, 44>>]>>

\* the option of the run has been read
OptionsRead == cmd.pc \in {"options", "masks", "error"} /\ cmd.opts = <<>>

\* the 27 symbols a..z and ','
LowerAndComma == Symbols(default_charset_l) \o <<",">>

\* C26 (as stated): in unicode mode -1 '?l?,' defines charset 1 as the 27
\* symbols a..z and ',' (?, contributes a literal comma) and the run goes on to
\* its mask
C26_CommaEscapedInCharsetBody ==
    LowerCommaRun /\ OptionsRead =>
        /\ cmd.pc # "error"
        /\ CharsetMap_count(cmd.charsets, "1") = 1
        /\ ReferencedCharset(cmd.charsets, "1").cset = LowerAndComma

\* C26 (amended): in unicode mode -1 '?l?,' fails: ?, is a reference to a
\* charset named ',', none is defined, so expanding charset 1 fails, work()
\* returns 1 with charset 1 left as it was given, and no mask generator is
\* created, so no word of any mask is produced
C26_UndefinedCommaCharsetFails ==
    LowerCommaRun /\ OptionsRead =>
        /\ cmd.pc = "error"
        /\ cmd.ret = 1
        /\ CharsetMap_count(cmd.charsets, ",") = 0
        /\ ReferencedCharset(cmd.charsets, "1") = [cset |-> <<"?", "l", "?", ",">>, final |-> FALSE]
        /\ IdleFile

\* the run with -1 '?l?,' and the mask ?1?1 has returned 1
C26_Witness ==
    /\ LowerCommaRun
    /\ cmd.mask_arg = <<63, 49, 63, 49>>
    /\ cmd.pc = "error"
    /\ cmd.ret = 1

\* with a charset ',' defined first, ?, refers to it: charset 1 is a..z and -
C26_CommaCharsetWitness ==
    /\ cmd.pc = "masks"
    /\ cmd.unicode
    /\ Len(cmd.given) = 2
    /\ cmd.given[2] = [first |-> 1, second |-> <<63, 108, 63, 44>>]
    /\ ReferencedCharset(cmd.charsets, "1").cset = Symbols(default_charset_l) \o <<"-">>

\* an unescaped comma is an ordinary symbol of a charset body: -1 '?l,'
\* defines the 27 symbols
C26_PlainCommaWitness ==
    /\ cmd.pc = "masks"
    /\ cmd.unicode
    /\ cmd.given = <<[first |-> 1, second |-> <<63, 108, 44>>]>>
    /\ ReferencedCharset(cmd.charsets, "1").cset = LowerAndComma

----------------------------------------------------------------------------
(* C28: the Charsets of the masks a generator returns                      *)

NoDuplicates(s) == \A i, j \in 1..Len(s) : s[i] = s[j] => i = j

WellFormedCharset(c) == Len(c.m_set) >= 1 /\ NoDuplicates(c.m_set)

\* the generator of the run has returned a mask
MaskReturned == mf.pc = "run" /\ mf.ret = "mask"

\* C28: every Charset at a position of a mask returned by the generator has
\* at least one codepoint and no codepoint twice, in byte mode and in unicode mode
C28_CharsetsOfMasksAreSets ==
    cmd.pc = "masks" /\ MaskReturned =>
        \A k \in 1..Len(mf.mask.m_charsets) : WellFormedCharset(mf.mask.m_charsets[k])

\* in byte mode the claim holds
C28_ByteModeCharsetsAreSets ==
    cmd.pc = "masks" /\ ~cmd.unicode /\ MaskReturned =>
        \A k \in 1..Len(mf.mask.m_charsets) : WellFormedCharset(mf.mask.m_charsets[k])

\* unicode mode, mask ?H: the position holds 32 codepoints, the digits twice
C28_HexUpperTwice ==
    /\ cmd.pc = "masks"
    /\ cmd.unicode
    /\ cmd.mask_arg = <<63, 72>>
    /\ MaskReturned
    /\ Len(mf.mask.m_charsets[1].m_set) = 32
    /\ ~NoDuplicates(mf.mask.m_charsets[1].m_set)

\* unicode mode, mask ?h: the built-in is empty and the Charset constructor aborts
C28_HexLowerEmpty ==
    /\ cmd.pc = "masks"
    /\ cmd.unicode
    /\ cmd.mask_arg = <<63, 104>>
    /\ mf.pc = "aborted"

\* a command line definition is expanded, which removes its duplicates, in
\* both modes: -1 'aab' and the mask ?1
C28_DefinitionWitness ==
    /\ cmd.pc = "masks"
    /\ cmd.given = <<[first |-> 1, second |-> <<97, 97, 98>>]>>
    /\ MaskReturned
    /\ mf.mask.m_charsets[1].m_set = <<"a", "b">>

----------------------------------------------------------------------------
(* C31: the result of Mask::getNext                                        *)

\* the index of the word the cursors of the charsets stand on (mixed radix,
\* rightmost fastest)
RECURSIVE MaskIndex(_, _)
MaskIndex(cs, i) ==
    IF i > Len(cs) THEN 0
    ELSE cs[i].m_p * SuffixProduct(cs, i) + MaskIndex(cs, i + 1)

\* one getNext call: it returns true exactly when the mask was at len - 1
\* before, is at index 0 after, and every cursor is back at its first symbol
GetNextCarry ==
    (nadv' = nadv + 1) =>
        /\ carry' <=> (MaskIndex(mask'.m_charsets, 1) = 0)
        /\ carry' <=> (MaskIndex(mask.m_charsets, 1) = Mask_getLen(mask) - 1)
        /\ carry' <=> (\A i \in 1..Mask_getWidth(mask') : mask'.m_charsets[i].m_p = 0)
        /\ MaskIndex(mask'.m_charsets, 1) = (MaskIndex(mask.m_charsets, 1) + 1) % Mask_getLen(mask)

\* C31: Mask.advance (getNext) returns carry = true exactly when the index of
\* the Mask after the call is 0 (it was at len - 1 before the call and every
\* cursor is back at its first symbol), and false for every other index.
C31_CarryIffBackAtZero == [][GetNextCarry]_vars

\* a three-wide mask of more than three words walked from its last word to its first
C31_Witness ==
    /\ Mask_getWidth(mask) = 3 /\ Mask_getLen(mask) > 3
    /\ lastpos = Mask_getLen(mask) - 1 /\ nadv = 1
    /\ carry
    /\ MaskIndex(mask.m_charsets, 1) = 0

\* the rightmost charset wrapped and the call returned false
C31_NoCarryWitness ==
    /\ Mask_getWidth(mask) = 3
    /\ nadv > 0
    /\ ~carry
    /\ mask.m_charsets[3].m_p = 0
    /\ MaskIndex(mask.m_charsets, 1) > 0

----------------------------------------------------------------------------
(* C32: the cursor of a Charset (SpecCharset)                              *)

\* C32: after set_position(o), for any 64-bit o, current() returns
\* s[o mod len] without moving the cursor; advance() moves the cursor from p
\* to (p + 1) mod len, returns the symbol at the new cursor and reports
\* wrapped exactly when the cursor moved from len - 1 to 0 (on every call
\* when len = 1).
C32_CharsetCursor ==
    heap.pc = "charset" =>
        LET s == heap.c.m_set
            len == Len(s)
        IN  /\ heap.c.m_p \in 0..(len - 1)
            /\ heap.op = "setPosition" => heap.c.m_p = heap.o % len
            /\ heap.op = "getCurrent" =>
                  /\ heap.c.m_p = heap.prev
                  /\ heap.out = s[heap.c.m_p + 1]
                  /\ heap.o >= 0 => heap.out = s[(heap.o % len) + 1]
            /\ heap.op = "getNext" =>
                  /\ heap.c.m_p = (heap.prev + 1) % len
                  /\ heap.out = s[heap.c.m_p + 1]
                  /\ heap.ret <=> (heap.prev = len - 1 /\ heap.c.m_p = 0)
                  /\ len = 1 => heap.ret

\* set_position(2^64 - 1) on x y z, then current()
C32_Witness ==
    /\ heap.pc = "charset"
    /\ heap.c.m_set = <<"x", "y", "z">>
    /\ heap.op = "getCurrent"
    /\ heap.o = U64 - 1
    /\ heap.out = heap.c.m_set[((U64 - 1) % 3) + 1]

\* advance() from the last symbol of x y z: wrapped
C32_WrapWitness ==
    /\ heap.pc = "charset"
    /\ heap.c.m_set = <<"x", "y", "z">>
    /\ heap.op = "getNext" /\ heap.prev = 2 /\ heap.ret /\ heap.out = "x"

\* advance() within x y z: not wrapped
C32_NoWrapWitness ==
    /\ heap.pc = "charset"
    /\ heap.c.m_set = <<"x", "y", "z">>
    /\ heap.op = "getNext" /\ heap.prev = 0 /\ ~heap.ret /\ heap.out = "y"

----------------------------------------------------------------------------
(* C33: the two overloads of the next-mask call (SpecOverloads)            *)

\* the lengths and widths of the masks the full-mask overload of a
\* BruteforceGenerator returns from the state g of its FirstStageGen; the
\* sequence ends with "abort" when a push aborts
RECURSIVE BruteMaskSizes(_, _)
BruteMaskSizes_next(constraints, r) ==
    IF ~r.ret THEN <<>>
    ELSE IF MaskOfOverflows(constraints, r.g.mask) THEN <<[kind |-> "abort"]>>
    ELSE <<[kind |-> "size", size |-> Mask_getLen(MaskOf(constraints, r.g.mask)),
            width |-> Mask_getWidth(MaskOf(constraints, r.g.mask))]>>
         \o BruteMaskSizes(constraints, r.g)

BruteMaskSizes(constraints, g) == BruteMaskSizes_next(constraints, FirstStageGen_call(g))

\* what the (size, width) overload reports from the state g
RECURSIVE BruteSizes(_, _, _)
BruteSizes_next(constraints, target_len, r) ==
    IF ~r.ret THEN <<>>
    ELSE IF SizeOf(constraints, r.g.mask, IF target_len = 0 THEN 0 ELSE 1) = -1
    THEN <<[kind |-> "abort"]>>
    ELSE <<[kind |-> "size",
            size |-> SizeOf(constraints, r.g.mask, IF target_len = 0 THEN 0 ELSE 1),
            width |-> target_len]>>
         \o BruteSizes(constraints, target_len, r.g)

BruteSizes(constraints, target_len, g) ==
    BruteSizes_next(constraints, target_len, FirstStageGen_call(g))

\* the masks the full-mask overload of a MaskFileGenerator returns, called
\* with the same Mask again and again, up to the first call that returns false
RECURSIVE FileMasks(_, _)
FileMasks_next(r) ==
    IF r.abort THEN <<"abort">>
    ELSE IF ~r.ret THEN <<>>
    ELSE <<r.mask>> \o FileMasks(r.gen, r.mask)

FileMasks(gen, msk) == FileMasks_next(MaskFileGenerator_call(gen, msk))

\* the masks behind the sizes the (size, width) overload reports
RECURSIVE FileSizeMasks(_)
FileSizeMasks_next(r) ==
    IF r.abort THEN <<"abort">>
    ELSE IF ~r.ret THEN <<>>
    ELSE <<r.mask>> \o FileSizeMasks(r.gen)

FileSizeMasks(gen) == FileSizeMasks_next(MaskFileGenerator_call(gen, EmptyMask))

\* the bruteforce side: sizes is what the (size, width) overload reports over
\* the whole sequence after reset(), masks what the full-mask overload returns
BruteOverloadsAgree(sizes, masks) ==
    /\ sizes = masks
    /\ (bout.kind = "size" /\ yielded # <<>> /\ bret) =>
          /\ Len(yielded) <= Len(masks)
          /\ bout.size = masks[Len(yielded)].size
          /\ bout.width = masks[Len(yielded)].width
    /\ (bout.kind = "mask" /\ yielded # <<>> /\ bret) =>
          /\ Len(yielded) <= Len(sizes)
          /\ Mask_getLen(bout.mask) = sizes[Len(yielded)].size
          /\ Mask_getWidth(bout.mask) = sizes[Len(yielded)].width

\* the mask file side: whatever overloads were called, the masks consumed so
\* far are the first masks of the one sequence both overloads walk
FileOverloadsAgree(sizeMasks, masks) ==
    /\ sizeMasks = masks
    /\ IsPrefix(mf.yielded, masks)
    /\ (bout.kind = "size" /\ bout.at > 0) =>
          /\ bout.at <= Len(masks)
          /\ bout.size = Mask_getLen(masks[bout.at])
          /\ bout.width = Mask_getWidth(masks[bout.at])

\* C33: for every generator and every position of its sequence, the
\* (size, width) overload and the full-mask overload consume one mask of the
\* same sequence, and the size and width reported by the first are getLen()
\* and getWidth() of the mask the second returns at that position; so the
\* sizes summed by a counting pass are the lengths of the masks pulled after
\* reset().
C33_OverloadsAgree ==
    /\ "pc" \in DOMAIN bf =>
          BruteOverloadsAgree(
              BruteSizes(bf.m_constraints, bf.m_target_len,
                         FirstStageGen(bf.m_constraints, bf.m_target_len)),
              BruteMaskSizes(bf.m_constraints,
                             FirstStageGen(bf.m_constraints, bf.m_target_len)))
    /\ mf.pc = "run" =>
          FileOverloadsAgree(FileSizeMasks(MaskFileGenerator_reset(mf.gen)),
                             FileMasks(MaskFileGenerator_reset(mf.gen), mf.mask))

\* a mask file: the first mask was taken by the full-mask overload, the
\* second by the (size, width) overload
C33_Witness ==
    /\ mf.pc = "run"
    /\ ~mf.gen.m_command_line_mask
    /\ Len(mf.yielded) = 2
    /\ mf.mask = mf.yielded[1]
    /\ mf.yielded[2] # mf.yielded[1]
    /\ bout.kind = "size" /\ bout.at = 2
    /\ bout.size = Mask_getLen(mf.yielded[2])
    /\ bout.size > 1

\* a bruteforce generator: the third mask was taken by the (size, width) overload
C33_BruteWitness ==
    /\ "pc" \in DOMAIN bf
    /\ Len(yielded) = 3
    /\ bout.kind = "size" /\ bret
    /\ bout.width = 3 /\ bout.size > 1

----------------------------------------------------------------------------
(* C34: the counts vector and partial mask shared by the second stage      *)
(* (SpecBrute)                                                             *)

\* counts[k] plus the occurrences of constraint k in the partial mask is n_k
Balanced(g, n) ==
    /\ Len(g.counts) = Len(n)
    /\ \A k \in 1..Len(n) : g.counts[k] + Occurrences(g.mask, k - 1) = n[k]

\* the calls of the second stage from the state g up to the call that reports
\* exhaustion: every yield is balanced, and at exhaustion counts is n again and
\* the partial mask is empty
RECURSIVE SecondStageKeeps(_, _)
SecondStageKeeps_after(r, n) ==
    IF r.ret
    THEN Balanced(r.g, n) /\ SecondStageKeeps(r.g, n)
    ELSE Balanced(r.g, n) /\ r.g.counts = n /\ r.g.mask = <<>>

SecondStageKeeps(g, n) == SecondStageKeeps_after(SecondStageGen_call(1, g), n)

\* the distribution of the second-stage generation that yielded the mask of g
DistributionOf(g) ==
    [k \in 1..Len(g.counts) |-> g.counts[k] + Occurrences(g.mask, k - 1)]

\* the first stage as it starts a second-stage generation for n
SecondStageStarted(g, n) ==
    [g EXCEPT !.counts = n, !.alloc = Max(@, 1), !.st[1] = 0, !.i[1] = 0, !.mask = <<>>]

AtYield == "pc" \in DOMAIN bf /\ bf.pc = "run" /\ bf.m_gen.st1 = 563 /\ ~bf.m_done

\* C34: during a second-stage generation for a distribution n, at every
\* yield and at exhaustion counts[k] plus the occurrences of constraint k in
\* the shared partial mask is n_k; at exhaustion counts is n again and the
\* partial mask is empty, so the first stage increments the distribution it
\* had selected.
C34_CountsRestored ==
    AtYield =>
       /\ Len(bf.m_gen.mask) = bf.m_target_len
       /\ \A k \in 1..Len(bf.m_gen.counts) : bf.m_gen.counts[k] = 0
       /\ SecondStageKeeps(bf.m_gen, DistributionOf(bf.m_gen))
       /\ SecondStageKeeps(SecondStageStarted(bf.m_gen, DistributionOf(bf.m_gen)),
                           DistributionOf(bf.m_gen))

\* a yield in the middle of a generation for a distribution with both
\* constraints: two masks were returned, and the mask starts with an
\* occurrence of the second constraint
C34_Witness ==
    /\ AtYield
    /\ Len(yielded) >= 2
    /\ bf.m_target_len = 3
    /\ DistributionOf(bf.m_gen) = <<2, 1>>
    /\ bf.m_gen.mask = <<1, 0, 0>>

----------------------------------------------------------------------------
(* C35: the charsets of a Mask after a sequence of pushes (SpecPush)       *)

\* the sets pushed, left to right: the left-pushed ones in reverse push order,
\* then the right-pushed ones in push order
RECURSIVE Arranged(_)
Arranged(pushes) ==
    IF pushes = <<>> THEN <<>>
    ELSE LET last == pushes[Len(pushes)]
             rest == Arranged(SubSeq(pushes, 1, Len(pushes) - 1))
         IN  IF last.left THEN <<last.set>> \o rest ELSE Append(rest, last.set)

RECURSIVE ProductOfLengths(_)
ProductOfLengths(sets) ==
    IF sets = <<>> THEN 1 ELSE Len(Head(sets)) * ProductOfLengths(Tail(sets))

\* the charsets of the vector hold the sets, each with its length
HoldsSets(v, sets) ==
    /\ Len(v) = Len(sets)
    /\ \A i \in 1..Len(v) : v[i].m_len = Len(sets[i]) /\ v[i].m_set = sets[i]

\* C35: after any sequence of push_charset_left and push_charset_right
\* calls that does not overflow, the width of the Mask is the number of
\* pushes, its charsets read left to right are the left-pushed ones in
\* reverse push order followed by the right-pushed ones in push order, each
\* with the length and content it was pushed with, and getLen() is the
\* product of those lengths.
C35_PushesKept ==
    (heap.pc = "vector" /\ heap.pushes # <<>>) =>
       /\ Len(heap.v) = Len(heap.pushes)
       /\ HoldsSets(heap.v, Arranged(heap.pushes))
       /\ heap.m_len = ProductOfLengths(Arranged(heap.pushes))

\* the statement holds of the Mask of the later revision
C35_LaterRevisionKeepsPushes ==
    (heap.pc = "vector" /\ heap.pushes # <<>> /\ ~heap.later.aborted) =>
       /\ Mask_getWidth(heap.later.m) = Len(heap.pushes)
       /\ heap.later.m.m_n_charsets = Len(heap.pushes)
       /\ [i \in 1..Len(heap.pushes) |-> heap.later.m.m_charsets[i].m_set]
             = Arranged(heap.pushes)
       /\ Mask_getLen(heap.later.m) = ProductOfLengths(Arranged(heap.pushes))

\* and of the Mask of Mask.h as long as every push_charset_left reallocates
C35_KeptWhileReallocating ==
    (heap.pc = "vector" /\ Len(heap.pushes) = 3) =>
       /\ HoldsSets(heap.v, Arranged(heap.pushes))
       /\ heap.m_len = ProductOfLengths(Arranged(heap.pushes))

\* push_charset_left("a"), ("01"), ("xyz"), ("01"): the fourth call finds room
\* in the vector; the first position keeps the length 3 and getLen() is 18
C35_LengthsStayInPlace ==
    /\ heap.pc = "vector"
    /\ heap.pushes = <<[left |-> TRUE, set |-> <<"a">>], [left |-> TRUE, set |-> <<"0", "1">>],
                       [left |-> TRUE, set |-> <<"x", "y", "z">>],
                       [left |-> TRUE, set |-> <<"0", "1">>]>>
    /\ heap.v[1].m_len = 3
    /\ heap.v[1].m_set[1] = "0" /\ heap.v[1].m_set[2] = "1" /\ heap.v[1].m_set[3] \in Garbage
    /\ heap.m_len = 18

\* four pushes on either side, kept by the later revision
C35_LaterWitness ==
    /\ heap.pc = "vector"
    /\ ~heap.later.aborted
    /\ Len(heap.pushes) = 4
    /\ heap.pushes[4].left /\ ~heap.pushes[2].left
    /\ Len(heap.pushes[4].set) # Len(heap.pushes[3].set)

----------------------------------------------------------------------------
(* C36: the built-in charsets of the initial registry (SpecCommandLine)    *)

\* work() has set up the built-in charsets and read no option yet
BuiltinsReady == cmd.pc = "options" /\ cmd.opts = cmd.given

\* the one definition of key in the registry
Bound(reg, key) == IF key \in DOMAIN reg /\ Len(reg[key]) = 1 THEN reg[key][1].cset ELSE <<>>

BoundFinal(reg, key) == key \in DOMAIN reg /\ Len(reg[key]) = 1 /\ reg[key][1].final

HexLowerDocumented ==
    <<"0", "1", "2", "3", "4", "5", "6", "7", "8", "9", "a", "b", "c", "d", "e", "f">>

HexUpperDocumented ==
    <<"0", "1", "2", "3", "4", "5", "6", "7", "8", "9", "A", "B", "C", "D", "E", "F">>

\* what the help text and the README say of the built-in charsets, of the
\* initial registry reg and of the registry expanded after work() expanded it
BuiltinsAsDocumented(reg, expanded, unicode) ==
    /\ \A k \in {"l", "u", "d", "s", "h", "H", "n", "r"} : BoundFinal(reg, k)
    /\ Bound(reg, "l") = Symbols(default_charset_l) /\ Len(Bound(reg, "l")) = 26
    /\ Bound(reg, "u") = Symbols(default_charset_u) /\ Len(Bound(reg, "u")) = 26
    /\ Bound(reg, "d") = Symbols(default_charset_d) /\ Len(Bound(reg, "d")) = 10
    /\ Bound(reg, "s") = Symbols(default_charset_s) /\ Len(Bound(reg, "s")) = 33
    /\ Bound(reg, "h") = HexLowerDocumented
    /\ Bound(reg, "H") = HexUpperDocumented
    /\ Bound(reg, "n") = <<"LF">>
    /\ Bound(reg, "r") = <<"CR">>
    /\ Bound(reg, "a") = <<"?", "l", "?", "u", "?", "d", "?", "s">>
    /\ ~BoundFinal(reg, "a")
    /\ Bound(expanded, "a") = Bound(reg, "l") \o Bound(reg, "u") \o Bound(reg, "d") \o Bound(reg, "s")
    /\ Len(Bound(expanded, "a")) = 95
    /\ BoundFinal(expanded, "a")
    /\ ("b" \in DOMAIN reg) = ~unicode
    /\ ~unicode => /\ BoundFinal(reg, "b")
                   /\ Bound(reg, "b") = Symbols(default_charset_b)
                   /\ Len(Bound(reg, "b")) = 256

\* C36: in byte mode and in unicode mode alike, the initial registry
\* binds l, u, d, s, h, H, n and r to their documented bodies as final
\* definitions (h = 0123456789abcdef and H = 0123456789ABCDEF), and a to
\* ?l?u?d?s, which expands to the 95 symbols of l, u, d, s in that order; b
\* (256 symbols) is defined in byte mode only.
C36_BuiltinsAsDocumented ==
    BuiltinsReady =>
        BuiltinsAsDocumented(initDefaultCharsets(cmd.unicode), cmd.charsets, cmd.unicode)

\* the statement holds in byte mode
C36_ByteModeBuiltins ==
    (BuiltinsReady /\ ~cmd.unicode) =>
        BuiltinsAsDocumented(initDefaultCharsets(cmd.unicode), cmd.charsets, cmd.unicode)

C36_ByteModeWitness ==
    /\ BuiltinsReady /\ ~cmd.unicode
    /\ Bound(cmd.charsets, "h") = HexLowerDocumented

\* unicode mode: h is bound to nothing and H to 32 codepoints, and everything
\* else is as documented
C36_UnicodeHexSwapped ==
    /\ BuiltinsReady /\ cmd.unicode
    /\ Bound(initDefaultCharsets(TRUE), "h") = <<>>
    /\ BoundFinal(initDefaultCharsets(TRUE), "h")
    /\ Bound(initDefaultCharsets(TRUE), "H") = HexLowerDocumented \o HexUpperDocumented
    /\ Len(Bound(cmd.charsets, "a")) = 95
    /\ "b" \notin DOMAIN cmd.charsets

----------------------------------------------------------------------------
(* C37: the working buffer of the emission loop (SpecBuffer)               *)

DelimOf(o) == IF o.m_no_delim THEN <<>> ELSE IF o.m_zero_delim THEN <<"NUL">> ELSE <<"LF">>

\* the words, each followed by its delimiter
RECURSIVE Delimited(_, _)
Delimited(words, delim) ==
    IF words = <<>> THEN <<>> ELSE Head(words) \o delim \o Delimited(Tail(words), delim)

\* the words copied by the step
NewWords == SubSeq(wk'.out, Len(wk.out) + 1, Len(wk'.out))

\* a step of the loop hands to the sink and keeps in the buffer, in this
\* order, what was there and the new words with their delimiters; the sink
\* only grows, by the whole buffer or by nothing before a word is copied
EmissionStep ==
    /\ IsPrefix(wk.out, wk'.out)
    /\ wk'.sink \o wk'.buffer = wk.sink \o wk.buffer \o Delimited(NewWords, DelimOf(wk.options))
    /\ IsPrefix(wk.sink, wk'.sink)
    /\ Len(wk'.buffer) <= BufferSize

\* C37: during emission the working buffer never holds more than 8192
\* symbols: a word and its delimiter are copied where they fit, after a flush
\* when they do not; and what the sink receives over the run is the emitted
\* words in order, each followed by its delimiter when there is one, wherever
\* the flushes fall.
C37_BufferNeverOverrun ==
    /\ [](Len(wk.buffer) <= BufferSize)
    /\ [][EmissionStep]_vars
    /\ [](wk.pc = "done" => wk.buffer = <<>>)

\* the buffer was flushed in the middle of a chunk: the sink holds the 8190
\* symbols copied earlier and the first word of the mask, the buffer the second
C37_Witness ==
    /\ wk.pc = "emit"
    /\ ~wk.options.m_no_delim
    /\ Len(wk.sink) = BufferSize
    /\ wk.sink[BufferSize - 1] \in {"0", "1"}
    /\ wk.buffer = <<"1", "LF">>

\* the word and its delimiter took the last free symbols: no flush
C37_ExactFitWitness ==
    /\ wk.pc = "emit"
    /\ wk.sink = <<>>
    /\ Len(wk.buffer) = BufferSize
    /\ wk.buffer[BufferSize - 2] = "0" /\ wk.buffer[BufferSize - 1] \in {"x", "y"}

----------------------------------------------------------------------------
(* C38: the range that passed range resolution and the end of the          *)
(* emission pass (SpecWorkFair)                                            *)

\* range resolution was passed and the emission pass has started
Emitting == wk.pc \in {"skip", "emit", "done"}

\* start + todo <= L, with start as range resolution left it
TodoWithinList ==
    wk.range[1] + ((wk.range[2] - wk.range[1]) % U64) <= wk.ml_len

\* a step of the skip loop, or of the emission loop with words left to
\* write, takes one more mask from the generator
AsksWhileWordsRemain ==
    /\ (wk.pc = "skip" /\ wk.start_idx # 0) => wk'.gen.pos = wk.gen.pos + 1
    /\ (wk.pc = "emit" /\ wk.todo # 0 /\ wk'.todo # 0) => wk'.gen.pos = wk.gen.pos + 1

\* C38: for every invocation that passes range resolution, for all values
\* of --begin and --end (--end = 2^64 - 1 included, where end + 1 wraps to 0),
\* start + todo <= L, the emission pass terminates, and it never asks an
\* exhausted generator for a mask while words remain to be written.
C38_RangeEmissionTerminates ==
    /\ [](Emitting => TodoWithinList)
    /\ [][AsksWhileWordsRemain]_vars
    /\ <>RunEnded

\* the three parts on their own
C38_TodoWithinList == Emitting => TodoWithinList

C38_NeverAsksExhausted == [][AsksWhileWordsRemain]_vars

\* the runs whose end_idx is not 0: start + todo <= L, and every iteration
\* of the two loops takes a mask that the generator still had, of which there
\* are finitely many
C38_WhenEndNotZero ==
    /\ [](Emitting /\ wk.range[2] # 0 => TodoWithinList)
    /\ [][wk.range[2] # 0 => AsksWhileWordsRemain]_vars
    /\ [](Emitting /\ wk.range[2] # 0 => wk.gen.pos <= Len(wk.gen.masks))

\* --begin 1 on an empty mask list: end_idx = L = 0 passes the test, todo
\* is 2^64 - 1 and the skip loop asks the exhausted generator without end
C38_SkipLoopSpins ==
    /\ wk.pc = "skip"
    /\ wk.gen.masks = <<>>
    /\ ~wk.options.m_end_word_set
    /\ wk.start_idx = 1
    /\ wk.todo = U64 - 1
    /\ ~GenNext(wk.gen, wk.current_mask).ret
    /\ GenNext(wk.gen, wk.current_mask).gen = wk.gen
    /\ GenNext(wk.gen, wk.current_mask).mask = wk.current_mask
    /\ Mask_getLen(wk.current_mask) = 0

\* --begin 1 --end 2^64 - 1 on one mask of one word: the word was written
\* and the generator, exhausted, was asked again
C38_EmitsPastTheEnd ==
    /\ wk.pc = "emit"
    /\ wk.options.m_end_word = U64 - 1 /\ wk.options.m_start_word = 1
    /\ wk.ml_len = 2
    /\ Len(wk.out) > wk.ml_len

----------------------------------------------------------------------------
(* C39: the result of MaskList::getFirstWord and getNext (SpecMaskList)    *)

\* a word was just produced
WordProduced == heap.pc = "masklist" /\ heap.op \in {"getFirstWord", "getNext"}

\* its index in the list: the start position, then one more for each getNext,
\* around the end of the list
IndexProduced == ((heap.o % heap.ml.m_len) + heap.n) % heap.ml.m_len

\* the masks as they were pushed
MasksPushed == [i \in 1..Len(heap.ml.m_masks) |-> Mask_setPosition(heap.ml.m_masks[i], 0)]

\* the walk has not gone around the end of the list
NotWrapped == (heap.o % heap.ml.m_len) + heap.n < heap.ml.m_len

\* up to the end of the list the calls produce its words in the order of
\* their index
ProducesTheList ==
    (WordProduced /\ NotWrapped) =>
       /\ heap.width = Len(AllWords(MasksPushed)[IndexProduced + 1])
       /\ SubSeq(heap.w, 1, heap.width) = AllWords(MasksPushed)[IndexProduced + 1]

\* C39: for every MaskList and every start position set with setPosition,
\* getFirstWord and getNext return true exactly when the word they have just
\* produced is the last word of the mask list, and false for every other word.
C39_TrueExactlyAtLastWord ==
    WordProduced => (heap.ret <=> IndexProduced = heap.ml.m_len - 1)

\* the words are the right ones, and the result is never true off the last word
C39_TrueOnlyAtLastWord ==
    /\ ProducesTheList
    /\ WordProduced /\ heap.ret => IndexProduced = heap.ml.m_len - 1

\* the statement holds when the last mask has more than one word
C39_WhenLastMaskLonger ==
    (WordProduced /\ Mask_getLen(heap.ml.m_masks[Len(heap.ml.m_masks)]) > 1)
        => (heap.ret <=> IndexProduced = heap.ml.m_len - 1)

\* two masks, the last of one word: getNext loads it, produces the last word
\* of the list and returns false
C39_LastWordMissed ==
    /\ WordProduced
    /\ Len(heap.ml.m_masks) = 2
    /\ heap.ml.m_len = 3
    /\ heap.o = 0 /\ heap.n = 2
    /\ heap.w[1] = "a"
    /\ IndexProduced = heap.ml.m_len - 1
    /\ ~heap.ret

\* the last word of a list whose last mask has two words: true
C39_LastWordWitness ==
    /\ WordProduced
    /\ Len(heap.ml.m_masks) = 2
    /\ heap.op = "getNext"
    /\ Mask_getLen(heap.ml.m_masks[2]) = 2
    /\ IndexProduced = heap.ml.m_len - 1
    /\ heap.ret

\* one mask of two words, setPosition(1): the getNext after the last word
\* goes back to the first mask and produces the word 1 again, not the word 0
C39_StaleWordAfterTheEnd ==
    /\ WordProduced
    /\ heap.ml.m_len = 2
    /\ heap.o = 1 /\ heap.n = 1
    /\ IndexProduced = 0
    /\ heap.w = <<"1">>

====
